---- MODULE Spec2Model ----
(***************************************************************************)
(* xenoform: the pattern language (Pattern AST + root registry), the       *)
(* pattern compiler (seq timeline, crossfades, looping), the interpreter   *)
(* (runCode) and the scheduler's view of the active pattern.               *)
(*                                                                         *)
(* JavaScript numbers are modelled as exact rationals <<n, d>> with d > 0  *)
(* in lowest terms, extended with Infinity <<1,0>>, -Infinity <<-1,0>> and *)
(* NaN <<0,0>>.  Compiled PatternFn closures are modelled as closure       *)
(* records (the captured variables of the arrow function) interpreted by   *)
(* Apply; the field id stands for the identity of the closure object.      *)
(***************************************************************************)
EXTENDS Integers, Sequences, FiniteSets, TLC

\* ------------------------------------------------------------------------
\* JavaScript number arithmetic
\* ------------------------------------------------------------------------

Abs(i) == IF i < 0 THEN -i ELSE i

Sign(i) == IF i < 0 THEN -1 ELSE IF i > 0 THEN 1 ELSE 0

RECURSIVE Gcd(_, _)
Gcd(a, b) == IF b = 0 THEN a ELSE Gcd(b, a % b)

\* The number n/d (d = 0 gives an infinity or NaN).
Rat(n, d) ==
  IF d = 0 THEN <<Sign(n), 0>>
  ELSE LET g == Gcd(Abs(n), Abs(d))
           s == Sign(d)
       IN  <<(s * n) \div g, Abs(d) \div g>>

Num(i) == <<i, 1>>

Zero == <<0, 1>>

One == <<1, 1>>

Infinity == <<1, 0>>

NaN == <<0, 0>>

IsNaN(a) == a = NaN

\* Number.isFinite / isFinite on a number
IsFinite(a) == a[2] # 0

Neg(a) == <<-a[1], a[2]>>

Add(a, b) ==
  IF IsNaN(a) \/ IsNaN(b) THEN NaN
  ELSE IF a[2] = 0 /\ b[2] = 0 THEN (IF a[1] = b[1] THEN a ELSE NaN)
  ELSE IF a[2] = 0 THEN a
  ELSE IF b[2] = 0 THEN b
  ELSE LET g == Gcd(a[2], b[2])
       IN  Rat(a[1] * (b[2] \div g) + b[1] * (a[2] \div g), (a[2] \div g) * b[2])

Sub(a, b) == Add(a, Neg(b))

Mul(a, b) ==
  IF IsNaN(a) \/ IsNaN(b) THEN NaN
  ELSE IF a[2] = 0 \/ b[2] = 0 THEN <<Sign(a[1]) * Sign(b[1]), 0>>
  ELSE LET g1 == Gcd(Abs(a[1]), b[2])
           g2 == Gcd(Abs(b[1]), a[2])
       IN  Rat((a[1] \div g1) * (b[1] \div g2), (a[2] \div g2) * (b[2] \div g1))

Div(a, b) ==
  IF IsNaN(a) \/ IsNaN(b) THEN NaN
  ELSE IF b[2] = 0 THEN (IF a[2] = 0 THEN NaN ELSE Zero)
  ELSE IF b[1] = 0 THEN <<Sign(a[1]), 0>>
  ELSE Mul(a, <<Sign(b[1]) * b[2], Abs(b[1])>>)

\* a < b
Lt(a, b) ==
  IF IsNaN(a) \/ IsNaN(b) THEN FALSE
  ELSE IF a[2] = 0 /\ b[2] = 0 THEN a[1] < b[1]
  ELSE LET g == Gcd(a[2], b[2])
       IN  a[1] * (b[2] \div g) < b[1] * (a[2] \div g)

\* a <= b
Le(a, b) == ~IsNaN(a) /\ ~IsNaN(b) /\ ~Lt(b, a)

\* a > b
Gt(a, b) == Lt(b, a)

MathMin(a, b) ==
  IF IsNaN(a) \/ IsNaN(b) THEN NaN ELSE IF Lt(b, a) THEN b ELSE a

MathMax(a, b) ==
  IF IsNaN(a) \/ IsNaN(b) THEN NaN ELSE IF Lt(a, b) THEN b ELSE a

\* Truncation toward zero of a finite number, as an integer.
Trunc(a) == IF a[1] >= 0 THEN a[1] \div a[2] ELSE -((-a[1]) \div a[2])

\* The remainder operator a % b (sign of the dividend).
Mod(a, b) ==
  IF IsNaN(a) \/ IsNaN(b) \/ ~IsFinite(a) \/ b = Zero THEN NaN
  ELSE IF ~IsFinite(b) THEN a
  ELSE Sub(a, Mul(Num(Trunc(Div(a, b))), b))

clamp01(v) == MathMax(Zero, MathMin(One, v))

smoothstep(t) ==
  LET c == clamp01(t) IN Mul(Mul(c, c), Sub(Num(3), Mul(Num(2), c)))

\* Math.sin / Math.cos, tabulated at the one angle the model's scripts use.
Sin(a) == CASE a = Zero -> Zero

Cos(a) == CASE a = Zero -> One

\* ------------------------------------------------------------------------
\* Values that can sit in an argument slot of a Pattern (PatternArgs)
\* ------------------------------------------------------------------------

NumV(r) == [k |-> "num", v |-> r]

PatV(p) == [k |-> "pat", v |-> p]

ArrV(s) == [k |-> "arr", v |-> s]

FnV(f) == [k |-> "fn", v |-> f]

Undefined == [k |-> "undef", v |-> <<>>]

\* v instanceof Pattern
IsPattern(val) == val.k = "pat"

\* (a.name as number) ?? dflt
Nullish(a, name, dflt) ==
  IF name \in DOMAIN a /\ a[name].k # "undef" THEN a[name].v ELSE dflt

\* A Pattern object: its identity, _type and _args.
MkPattern(id, type, args) == [id |-> id, type |-> type, args |-> args]

\* ------------------------------------------------------------------------
\* PatternFn closures
\* ------------------------------------------------------------------------

\* null / undefined in a PatternFn slot
NullFn == [op |-> "null"]

\* A function written by the user (a map() callback or a signal); name is
\* its identity and selects its body in ApplyUser.
UserFn(name) == [op |-> "user", name |-> name]

ApplyUser(name, x, z, t, n) ==
  CASE name = "t" -> t
    [] name = "x" -> x
    [] name = "half" -> Rat(1, 2)
    [] name = "one_minus_t" -> Sub(One, t)
    [] name = "nan" -> NaN

PatternTypes ==
  {"flat", "wave", "ripple", "checker", "gridlines", "pyramid", "noise", "map",
   "sleep", "seq", "rotate", "scale", "offset", "slow", "fast", "ease", "inv",
   "blend", "add", "mul"}

DEFAULT_SECONDS_PER_CYCLE == One

defaultContext == [secondsPerCycle |-> DEFAULT_SECONDS_PER_CYCLE]

\* Mutant of transitionDuration: every crossfade lasts 0.8 s.
transitionAlwaysLongest(toDur) == Rat(8, 10)

\* Mutant of transitionDuration: the 0.8 s cap is missing.
transitionUncapped(toDur) == Mul(toDur, Rat(4, 10))

transitionDuration(toDur) == MathMin(Rat(8, 10), Mul(toDur, Rat(4, 10)))

\* a.patterns as Pattern[]
AsPatterns(arr) == [i \in 1..Len(arr.v) |-> arr.v[i].v]

\* Mutant of flattenSeqItems: nested seqs are left in place.
flattenNothing(patterns) == patterns

RECURSIVE flattenSeqItems(_)
flattenSeqItems(patterns) ==
  IF patterns = <<>> THEN <<>>
  ELSE LET p == Head(patterns)
       IN  (IF p.type = "seq"
              THEN flattenSeqItems(AsPatterns(p.args.patterns))
              ELSE <<p>>) \o flattenSeqItems(Tail(patterns))

unwrapTime(p) ==
  IF p.type = "time"
    THEN [inner |-> p.args.source.v, duration |-> p.args.seconds.v]
    ELSE [inner |-> p, duration |-> <<>>]

\* The CompiledNode of a kind that sets neither loop nor wrapInfo.
Compiled(fn, duration) ==
  [fn |-> fn, duration |-> duration, loop |-> FALSE, wrapInfo |-> <<>>]

\* Mutant of Transformed: a transform does not forward its source's loop flag.
TransformedDropsLoop(fn, duration, srcNode) ==
  [fn |-> fn, duration |-> duration, loop |-> FALSE, wrapInfo |-> <<>>]

\* Mutant of Transformed: a transform forwards its source's wrapInfo as well.
TransformedKeepsWrapInfo(fn, duration, srcNode) ==
  [fn |-> fn, duration |-> duration, loop |-> srcNode.loop,
   wrapInfo |-> srcNode.wrapInfo]

\* The CompiledNode of a unary transform: loop is forwarded, wrapInfo is not.
Transformed(fn, duration, srcNode) ==
  [fn |-> fn, duration |-> duration, loop |-> srcNode.loop, wrapInfo |-> <<>>]

\* ------------------------------------------------------------------------
\* The compiler
\* ------------------------------------------------------------------------

\* Mutant of DefaultNode: a node of an unknown kind takes no time.
DefaultNodeInstant(spc, path) == Compiled([op |-> "zero", id |-> path], Zero)

\* compileNode, default case: { fn: () => 0, duration: spc }
DefaultNode(spc, path) == Compiled([op |-> "zero", id |-> path], spc)

RECURSIVE compile(_, _, _)
RECURSIVE compileNode(_, _, _)
RECURSIVE planItems(_, _, _, _)

\* Mutant of resolveArgWithContext: a constant is replaced by 0.
resolveArgDropsConstant(v, ctx, path) ==
  IF IsPattern(v) THEN compile(v.v, ctx, path)
  ELSE IF v.k = "fn" THEN v.v
  ELSE [op |-> "zero", id |-> path]

\* resolveArg: as resolveArgWithContext, compile() given no context.
resolveArg(v, path) ==
  IF IsPattern(v) THEN compile(v.v, <<>>, path)
  ELSE IF v.k = "fn" THEN v.v
  ELSE [op |-> "const", c |-> v.v, id |-> path]

\* path names the position of the compilation in the tree walk: every arrow
\* function created there is a fresh closure object, identified by its path.
resolveArgWithContext(v, ctx, path) ==
  IF IsPattern(v) THEN compile(v.v, ctx, path)
  ELSE IF v.k = "fn" THEN v.v
  ELSE [op |-> "const", c |-> v.v, id |-> path]

\* Mutant of PlannedPattern: the override crops the item instead of rescaling it.
PlannedPatternCropped(explicitDur, compiled, id) ==
  [type |-> "p", fn |-> compiled.fn,
   duration |-> IF explicitDur # <<>> THEN explicitDur ELSE compiled.duration]

\* The PlannedItem of a non-sleep item: explicitDur is the item's time()
\* override (<<>> for null), compiled the CompiledNode of the unwrapped item.
PlannedPattern(explicitDur, compiled, id) ==
  LET targetDur == IF explicitDur # <<>> THEN explicitDur ELSE compiled.duration
      rescaled == /\ explicitDur # <<>>
                  /\ IsFinite(explicitDur)
                  /\ Gt(explicitDur, Zero)
                  /\ IsFinite(compiled.duration)
                  /\ Gt(compiled.duration, Zero)
      fn == IF rescaled
              THEN [op |-> "rescale", srcFn |-> compiled.fn,
                    scale |-> Div(compiled.duration, explicitDur), id |-> id]
              ELSE compiled.fn
  IN  [type |-> "p", fn |-> fn, duration |-> targetDur]

\* The PlannedItem of a sleep item.
PlannedHold(explicitDur, inner, id) ==
  [type |-> "h", fn |-> [op |-> "zero", id |-> id],
   duration |-> IF explicitDur # <<>> THEN explicitDur
                ELSE Nullish(inner.args, "duration", Infinity)]

\* The planning loop of case "seq": one PlannedItem per item, stopping after
\* an infinite sleep.
planItems(items, i, ctx, path) ==
  IF i > Len(items) THEN <<>>
  ELSE IF unwrapTime(items[i]).inner.type = "sleep"
    THEN <<PlannedHold(unwrapTime(items[i]).duration, unwrapTime(items[i]).inner,
                       path \o <<i>>)>>
         \o (IF ~IsFinite(PlannedHold(unwrapTime(items[i]).duration,
                                      unwrapTime(items[i]).inner, <<>>).duration)
               THEN <<>>
               ELSE planItems(items, i + 1, ctx, path))
    ELSE <<PlannedPattern(unwrapTime(items[i]).duration,
                          compileNode(unwrapTime(items[i]).inner, ctx, path \o <<i>>),
                          path \o <<i>>)>>
         \o planItems(items, i + 1, ctx, path)

\* Mutant of Segment: a hold segment carries no function.
SegmentHoldEmpty(s, e, type, fn, from, to) ==
  [s |-> s, e |-> e, type |-> type, fn |-> IF type = "h" THEN NullFn ELSE fn,
   from |-> from, to |-> to]

Segment(s, e, type, fn, from, to) ==
  [s |-> s, e |-> e, type |-> type, fn |-> fn, from |-> from, to |-> to]

\* The segment-building loop of case "seq"; st holds its local variables.
RECURSIVE buildSegs(_, _, _)
buildSegs(planned, i, st) ==
  IF i > Len(planned) THEN st
  ELSE
    LET plan == planned[i] IN
    IF plan.type = "h"
      THEN IF ~IsFinite(plan.duration)
             THEN [st EXCEPT
                     !.segs = Append(@, Segment(st.cursor, Infinity, "h",
                                                st.lastFn, NullFn, NullFn)),
                     !.hasInfHold = TRUE]
             ELSE IF st.lastFn # NullFn
               THEN buildSegs(planned, i + 1,
                      [st EXCEPT
                         !.segs = Append(@, Segment(st.cursor,
                                    Add(st.cursor, plan.duration), "h",
                                    st.lastFn, NullFn, NullFn)),
                         !.cursor = Add(@, plan.duration)])
               ELSE buildSegs(planned, i + 1, st)
      ELSE
        LET segDur == plan.duration
            fn == plan.fn
            isFirst == st.firstFn = NullFn
            tt == transitionDuration(segDur)
            withX == IF st.lastFn # NullFn
                       THEN [st EXCEPT
                               !.segs = Append(@, Segment(st.cursor,
                                          Add(st.cursor, tt), "x", NullFn,
                                          st.lastFn, fn)),
                               !.cursor = Add(@, tt)]
                       ELSE st
        IN  buildSegs(planned, i + 1,
              [withX EXCEPT
                 !.firstFn = IF isFirst THEN fn ELSE @,
                 !.firstPatternDur = IF isFirst THEN segDur ELSE @,
                 !.segs = Append(@, Segment(withX.cursor,
                            Add(withX.cursor, segDur), "p", fn, NullFn, NullFn)),
                 !.cursor = Add(@, segDur),
                 !.lastFn = fn])

\* Mutant of SeqNode: an infinite hold does not make the duration infinite.
SeqNodeFiniteDuration(st, path) ==
  [fn |-> [op |-> "seq", segs |-> st.segs, lastFn |-> st.lastFn, id |-> path],
   duration |-> st.cursor,
   loop |-> TRUE,
   wrapInfo |-> <<>>]

\* Mutant of SeqNode: wrap information also when first and last function
\* are the same.
SeqNodeAlwaysWraps(st, path) ==
  [fn |-> [op |-> "seq", segs |-> st.segs, lastFn |-> st.lastFn, id |-> path],
   duration |-> IF st.hasInfHold THEN Infinity ELSE st.cursor,
   loop |-> TRUE,
   wrapInfo |->
     IF ~st.hasInfHold /\ st.firstFn # NullFn /\ st.lastFn # NullFn
       THEN <<[firstFn |-> st.firstFn, lastFn |-> st.lastFn,
               firstDuration |-> st.firstPatternDur]>>
       ELSE <<>>]

\* The CompiledNode case "seq" returns, given the locals st the
\* segment-building loop ended with.
SeqNode(st, path) ==
  [fn |-> [op |-> "seq", segs |-> st.segs, lastFn |-> st.lastFn, id |-> path],
   duration |-> IF st.hasInfHold THEN Infinity ELSE st.cursor,
   loop |-> TRUE,
   wrapInfo |->
     IF ~st.hasInfHold /\ st.firstFn # NullFn /\ st.lastFn # NullFn
        /\ st.firstFn # st.lastFn
       THEN <<[firstFn |-> st.firstFn, lastFn |-> st.lastFn,
               firstDuration |-> st.firstPatternDur]>>
       ELSE <<>>]

\* case "seq" of compileNode
compileSeq(a, ctx, path) ==
  SeqNode(buildSegs(planItems(flattenSeqItems(AsPatterns(a.patterns)), 1, ctx, path),
                    1,
                    [segs |-> <<>>, cursor |-> Zero, lastFn |-> NullFn,
                     firstFn |-> NullFn, firstPatternDur |-> ctx.secondsPerCycle,
                     hasInfHold |-> FALSE]),
          path)

\* The CompiledNode case "time" returns, given the source's CompiledNode.
TimeNode(a, srcNode, path) ==
  LET srcFn == srcNode.fn
      seconds == a.seconds.v
      source == a.source.v
  IN  IF /\ source.type = "seq"
         /\ IsFinite(seconds)
         /\ Gt(seconds, Zero)
         /\ IsFinite(srcNode.duration)
         /\ Gt(srcNode.duration, Zero)
        THEN [fn |-> [op |-> "rescale", srcFn |-> srcFn,
                      scale |-> Div(srcNode.duration, seconds), id |-> path],
              duration |-> seconds,
              loop |-> srcNode.loop,
              wrapInfo |-> srcNode.wrapInfo]
        ELSE [fn |-> [op |-> "pass", srcFn |-> srcFn, id |-> path],
              duration |-> seconds,
              loop |-> srcNode.loop,
              wrapInfo |-> srcNode.wrapInfo]

\* case "time" of compileNode
compileTime(a, ctx, path) ==
  TimeNode(a, compileNode(a.source.v, ctx, path \o <<1>>), path)

\* Mutant of BinaryNode: the duration of the first operand is taken.
BinaryNodeFirstDuration(type, aNode, bNode, mFn, path) ==
  Compiled([op |-> type, aFn |-> aNode.fn, bFn |-> bNode.fn, mFn |-> mFn,
            id |-> path],
           aNode.duration)

\* The CompiledNode cases "blend", "add", "mul" return, given the operands'.
BinaryNode(type, aNode, bNode, mFn, path) ==
  Compiled([op |-> type, aFn |-> aNode.fn, bFn |-> bNode.fn, mFn |-> mFn,
            id |-> path],
           MathMax(aNode.duration, bNode.duration))

\* cases "blend", "add", "mul" of compileNode
compileBinary(type, a, ctx, path) ==
  BinaryNode(type,
             compileNode(a.a.v, ctx, path \o <<1>>),
             compileNode(a.b.v, ctx, path \o <<2>>),
             IF type = "blend"
               THEN resolveArgWithContext(a.mix, ctx, path \o <<3>>)
               ELSE NullFn,
             path)

\* a.name ?? 0, as an argument slot value
OrZero(a, name) ==
  IF name \in DOMAIN a /\ a[name].k # "undef" THEN a[name] ELSE NumV(Zero)

\* The CompiledNode a unary transform returns, given the source's; arg1 and
\* arg2 are its resolved dynamic arguments (angFn; oxFn and ozFn).
UnaryNode(type, a, srcNode, arg1, arg2, path) ==
  LET srcFn == srcNode.fn
  IN  CASE type = "rotate" ->
             Transformed([op |-> "rotate", srcFn |-> srcFn, angFn |-> arg1,
                          id |-> path],
                         srcNode.duration, srcNode)
        [] type = "scale" ->
             Transformed([op |-> "scale", srcFn |-> srcFn, sx |-> a.sx.v,
                          sz |-> Nullish(a, "sz", a.sx.v), id |-> path],
                         srcNode.duration, srcNode)
        [] type = "offset" ->
             Transformed([op |-> "offset", srcFn |-> srcFn, oxFn |-> arg1,
                          ozFn |-> arg2, id |-> path],
                         srcNode.duration, srcNode)
        [] type = "slow" ->
             Transformed([op |-> "slow", srcFn |-> srcFn, f |-> a.factor.v,
                          id |-> path],
                         Mul(srcNode.duration, a.factor.v), srcNode)
        [] type = "fast" ->
             Transformed([op |-> "fast", srcFn |-> srcFn, f |-> a.factor.v,
                          id |-> path],
                         Div(srcNode.duration, a.factor.v), srcNode)
        [] type = "ease" ->
             Transformed([op |-> "ease", srcFn |-> srcFn, id |-> path],
                         srcNode.duration, srcNode)
        [] type = "inv" ->
             Transformed([op |-> "inv", srcFn |-> srcFn, id |-> path],
                         srcNode.duration, srcNode)

\* cases "rotate", "scale", "offset", "slow", "fast", "ease", "inv"
compileUnary(type, a, ctx, path) ==
  UnaryNode(type, a,
            compileNode(a.source.v, ctx, path \o <<1>>),
            IF type = "rotate"
              THEN resolveArgWithContext(a.angle, ctx, path \o <<2>>)
              ELSE IF type = "offset"
                THEN resolveArgWithContext(OrZero(a, "ox"), ctx, path \o <<2>>)
                ELSE NullFn,
            IF type = "offset"
              THEN resolveArgWithContext(OrZero(a, "oz"), ctx, path \o <<3>>)
              ELSE NullFn,
            path)

compileNode(pat, ctx, path) ==
  LET type == pat.type
      a == pat.args
      spc == ctx.secondsPerCycle
  IN  CASE type = "flat" ->
             Compiled([op |-> "flat", h |-> a.h.v, id |-> path], spc)
        [] type \in {"wave", "ripple", "checker", "gridlines", "noise"} ->
             Compiled([op |-> type, a |-> a, id |-> path], spc)
        [] type = "pyramid" ->
             Compiled([op |-> "pyramid", id |-> path], spc)
        [] type = "map" ->
             Compiled(a.fn.v, spc)
        [] type = "sleep" ->
             Compiled([op |-> "zero", id |-> path],
                      Nullish(a, "duration", Infinity))
        [] type = "seq" -> compileSeq(a, ctx, path)
        [] type \in {"rotate", "scale", "offset", "slow", "fast", "ease", "inv"} ->
             compileUnary(type, a, ctx, path)
        [] type \in {"blend", "add", "mul"} -> compileBinary(type, a, ctx, path)
        [] type = "time" -> compileTime(a, ctx, path)
        [] OTHER -> DefaultNode(spc, path)

\* { ...defaultContext, ...ctx } for a Partial<CompileContext> ctx
FullCtx(c) ==
  [secondsPerCycle |->
     IF "secondsPerCycle" \in DOMAIN c THEN c.secondsPerCycle
     ELSE defaultContext.secondsPerCycle]

\* Mutant of TopLevel: compile() returns the node's function as it is.
TopLevelPlaysOnce(node, path) == node.fn

\* What compile() returns, given the CompiledNode of its argument.
TopLevel(node, path) ==
  IF node.loop /\ IsFinite(node.duration) /\ Gt(node.duration, Zero)
    THEN IF node.wrapInfo # <<>>
           THEN [op |-> "loopWrap", fn |-> node.fn,
                 duration |-> node.duration,
                 firstFn |-> node.wrapInfo[1].firstFn,
                 lastFn |-> node.wrapInfo[1].lastFn,
                 tt |-> transitionDuration(node.wrapInfo[1].firstDuration),
                 loopDur |-> Add(node.duration,
                                 transitionDuration(node.wrapInfo[1].firstDuration)),
                 id |-> path \o <<0>>]
           ELSE [op |-> "loopMod", fn |-> node.fn,
                 duration |-> node.duration, id |-> path \o <<0>>]
    ELSE node.fn

compile(pat, ctx, path) == TopLevel(compileNode(pat, FullCtx(ctx), path), path)

\* ------------------------------------------------------------------------
\* Calling a compiled PatternFn: f(x, z, t, n)
\* ------------------------------------------------------------------------

MathAbs(a) == <<Abs(a[1]), a[2]>>

\* Mutant of Mix: the first function is not weighted.
MixUnweighted(from, to, bl) == Add(from, Mul(to, bl))

\* from * (1 - bl) + to * bl
Mix(from, to, bl) == Add(Mul(from, Sub(One, bl)), Mul(to, bl))

\* Mutant of SegmentAt: the sampler takes the last segment that has not ended.
SegmentAtLatest(segs, t) ==
  LET hit == {i \in 1..Len(segs) : Lt(t, segs[i].e) \/ ~IsFinite(segs[i].e)}
  IN  IF hit = {} THEN 0 ELSE CHOOSE i \in hit : \A j \in hit : i >= j

\* The first segment the sampling closure of a seq selects at time t (0 if none).
SegmentAt(segs, t) ==
  LET hit == {i \in 1..Len(segs) : Lt(t, segs[i].e) \/ ~IsFinite(segs[i].e)}
  IN  IF hit = {} THEN 0 ELSE CHOOSE i \in hit : \A j \in hit : i <= j

\* Mutant of SegmentLocalTime: the item is sampled at the sequence's time.
SegmentAbsoluteTime(t, seg) == t

\* t - seg.s: the time a pattern or hold segment samples its function at
SegmentLocalTime(t, seg) == Sub(t, seg.s)

\* An easing function (t) => number passed to tween, selected by name.
ApplyEase(name, p) ==
  CASE name = "smoothstep" -> smoothstep(p)
    [] name = "linear" -> p
    [] name = "halved" -> Div(p, Num(2))

\* The body of the closure tween() returns.
TweenAt(f, t) ==
  IF Le(f.duration, Zero) THEN f.to
  ELSE LET p == MathMin(Div(t, f.duration), One)
       IN  Add(f.from, Mul(Sub(f.to, f.from), ApplyEase(f.eFn, p)))

RECURSIVE Apply(_, _, _, _, _)
Apply(f, x, z, t, n) ==
  CASE f.op = "flat" -> f.h
    [] f.op = "tween" -> TweenAt(f, t)
    [] f.op = "zero" -> Zero
    [] f.op = "const" -> f.c
    [] f.op = "user" -> ApplyUser(f.name, x, z, t, n)
    [] f.op = "pyramid" ->
         Sub(One, Mul(MathMax(MathAbs(Sub(x, Rat(1, 2))),
                              MathAbs(Sub(z, Rat(1, 2)))), Num(2)))
    [] f.op = "rescale" -> Apply(f.srcFn, x, z, Mul(t, f.scale), n)
    [] f.op = "pass" -> Apply(f.srcFn, x, z, t, n)
    [] f.op = "seq" ->
         LET i == SegmentAt(f.segs, t) IN
         IF i = 0
           THEN (IF f.lastFn # NullFn THEN Apply(f.lastFn, x, z, Zero, n) ELSE Zero)
           ELSE LET seg == f.segs[i] IN
                IF seg.type \in {"p", "h"}
                  THEN (IF seg.fn # NullFn
                          THEN Apply(seg.fn, x, z, SegmentLocalTime(t, seg), n)
                          ELSE Zero)
                  ELSE LET bl == smoothstep(Div(Sub(t, seg.s), Sub(seg.e, seg.s)))
                           localT == Sub(t, seg.s)
                       IN  Mix(Apply(seg.from, x, z, localT, n),
                               Apply(seg.to, x, z, localT, n), bl)
    [] f.op = "rotate" ->
         LET ang == Apply(f.angFn, x, z, t, n)
             cx2 == Sub(x, Rat(1, 2))
             cz2 == Sub(z, Rat(1, 2))
         IN  Apply(f.srcFn,
                   Add(Sub(Mul(cx2, Cos(ang)), Mul(cz2, Sin(ang))), Rat(1, 2)),
                   Add(Add(Mul(cx2, Sin(ang)), Mul(cz2, Cos(ang))), Rat(1, 2)),
                   t, n)
    [] f.op = "scale" ->
         Apply(f.srcFn, Add(Div(Sub(x, Rat(1, 2)), f.sx), Rat(1, 2)),
               Add(Div(Sub(z, Rat(1, 2)), f.sz), Rat(1, 2)), t, n)
    [] f.op = "offset" ->
         Apply(f.srcFn, Sub(x, Apply(f.oxFn, x, z, t, n)),
               Sub(z, Apply(f.ozFn, x, z, t, n)), t, n)
    [] f.op = "slow" -> Apply(f.srcFn, x, z, Div(t, f.f), n)
    [] f.op = "fast" -> Apply(f.srcFn, x, z, Mul(t, f.f), n)
    [] f.op = "ease" -> smoothstep(Apply(f.srcFn, x, z, t, n))
    [] f.op = "inv" -> Sub(One, Apply(f.srcFn, x, z, t, n))
    [] f.op = "blend" ->
         LET m == Apply(f.mFn, x, z, t, n)
         IN  Mix(Apply(f.aFn, x, z, t, n), Apply(f.bFn, x, z, t, n), m)
    [] f.op = "add" -> clamp01(Add(Apply(f.aFn, x, z, t, n), Apply(f.bFn, x, z, t, n)))
    [] f.op = "mul" -> Mul(Apply(f.aFn, x, z, t, n), Apply(f.bFn, x, z, t, n))
    [] f.op = "loopWrap" ->
         LET lt == Mod(t, f.loopDur) IN
         IF Lt(lt, f.duration) THEN Apply(f.fn, x, z, lt, n)
         ELSE LET bl == smoothstep(Div(Sub(lt, f.duration), f.tt))
                  localT == Sub(lt, f.duration)
              IN  Mix(Apply(f.lastFn, x, z, localT, n),
                      Apply(f.firstFn, x, z, localT, n), bl)
    [] f.op = "loopMod" -> Apply(f.fn, x, z, Mod(t, f.duration), n)

\* ------------------------------------------------------------------------
\* Pattern factories (id is the identity of the object `new Pattern` returns)
\* ------------------------------------------------------------------------

flat(id, h) == MkPattern(id, "flat", [h |-> NumV(h)])

map(id, fn) == MkPattern(id, "map", [fn |-> FnV(fn)])

seq(id, patterns) ==
  MkPattern(id, "seq",
            [patterns |-> ArrV([i \in 1..Len(patterns) |-> PatV(patterns[i])])])

sleep(id, duration) == MkPattern(id, "sleep", [duration |-> NumV(duration)])

add(id, a, b) == MkPattern(id, "add", [a |-> PatV(a), b |-> PatV(b)])

inv(id, a) == MkPattern(id, "inv", [source |-> PatV(a)])

slow(id, source, factor) ==
  MkPattern(id, "slow", [source |-> PatV(source), factor |-> NumV(factor)])

fast(id, source, factor) ==
  MkPattern(id, "fast", [source |-> PatV(source), factor |-> NumV(factor)])

ease(id, a) == MkPattern(id, "ease", [source |-> PatV(a)])

\* source.rotate(angle)
rotate(id, source, angle) ==
  MkPattern(id, "rotate", [source |-> PatV(source), angle |-> NumV(angle)])

\* source.scale(sx)
scale(id, source, sx) ==
  MkPattern(id, "scale", [source |-> PatV(source), sx |-> NumV(sx), sz |-> Undefined])

\* source.offset()
offset(id, source) ==
  MkPattern(id, "offset", [source |-> PatV(source), ox |-> Undefined, oz |-> Undefined])

\* new Pattern("time", { source, seconds })
time(id, source, seconds) ==
  MkPattern(id, "time", [source |-> PatV(source), seconds |-> NumV(seconds)])

\* ------------------------------------------------------------------------
\* The root registry (Pattern._registry, a Set in insertion order)
\* ------------------------------------------------------------------------

\* The Patterns the constructor's scan of Object.values(args) finds: direct
\* Pattern values and Pattern elements of array values.
ScannedChildren(args) ==
  {args[k].v : k \in {j \in DOMAIN args : IsPattern(args[j])}}
  \cup UNION {{args[k].v[i].v : i \in {j \in 1..Len(args[k].v) : IsPattern(args[k].v[j])}}
              : k \in {j \in DOMAIN args : args[j].k = "arr"}}

\* Set.prototype.add
SetAdd(reg, p) ==
  IF \E i \in 1..Len(reg) : reg[i] = p THEN reg ELSE Append(reg, p)

\* Set.prototype.delete, for every member of ps
SetDeleteAll(reg, ps) == SelectSeq(reg, LAMBDA q : q \notin ps)

\* Mutant of PatternConstructor: the scan misses array-valued arguments.
PatternConstructorSkipsArrays(reg, self) ==
  SetDeleteAll(SetAdd(reg, self),
               {self.args[k].v : k \in {j \in DOMAIN self.args : IsPattern(self.args[j])}})

\* The registry after `new Pattern(...)` returned self.
PatternConstructor(reg, self) ==
  SetDeleteAll(SetAdd(reg, self), ScannedChildren(self.args))

\* Pattern.getRoots()
getRoots(reg) == reg

\* Mutant of PatternClear: the registry is kept.
PatternClearKeeps(reg) == reg

\* Pattern.clear()
PatternClear(reg) == <<>>

createPendingConfig ==
  [gridSize |-> <<>>, background |-> <<>>, rotateMode |-> <<>>,
   secondsPerCycle |-> <<>>]

\* What main.ts starts with: buildPinField(scene, 32), a black background
\* and rotate mode "auto".
createDisplay ==
  [grid |-> Num(32), background |-> "#000000", rotateMode |-> <<"a", "u", "t", "o">>]

createSchedulerState ==
  [activePattern |-> NullFn, globalTime |-> Zero, programStartTime |-> Zero,
   started |-> FALSE]

\* ------------------------------------------------------------------------
\* Bounds and input sets
\* ------------------------------------------------------------------------

\* Pattern objects constructed over all runs
MaxNodes == 3

\* handleRun calls
MaxRuns == 2

\* animation frames
MaxFrames == 2

\* items in an enumerated seq
MaxItems == 3

\* sample times are k/10 s for k in 0..MaxTick
MaxTick == 44

\* loop periods a sample is compared across
MaxPeriods == 2

\* calls of compiled functions in one history
MaxCalls == 3

Heights == {Rat(1, 5), Rat(4, 5)}

\* clock.getDelta() capped at 0.1
Dts == {Rat(1, 10), Rat(1, 20)}

Times == {Rat(k, 10) : k \in 0..MaxTick} \cup {Num(100), Num(10000)}

Contexts == {<<>>, [secondsPerCycle |-> Rat(1, 2)]}

SeqOf(S, n) == UNION {[1..m -> S] : m \in 1..n}

Leaves == {flat(0, Zero), flat(0, One), map(0, UserFn("t"))}

Items ==
  Leaves \cup {sleep(0, Rat(1, 2)), sleep(0, Infinity),
               time(0, map(0, UserFn("t")), Num(3))}

Inners == {seq(0, <<flat(0, Zero), flat(0, One)>>),
           seq(0, <<map(0, UserFn("t")), flat(0, One)>>),
           seq(0, <<flat(0, Zero), map(0, UserFn("t"))>>)}

Nested ==
  UNION {{seq(0, <<time(0, i, Rat(7, 5))>>),
          seq(0, <<flat(0, Rat(1, 5)), time(0, i, Rat(7, 5))>>),
          seq(0, <<flat(0, Rat(1, 5)), i>>),
          seq(0, <<flat(0, Rat(1, 5)), seq(0, <<map(0, UserFn("t")), i>>)>>),
          seq(0, <<flat(0, Rat(1, 5)), slow(0, i, Num(2))>>),
          slow(0, i, Num(2)), fast(0, i, Num(2)), inv(0, i), ease(0, i),
          rotate(0, i, Zero), scale(0, i, One), offset(0, i),
          time(0, i, Rat(7, 5)),
          time(0, slow(0, i, Num(2)), Rat(7, 5)),
          add(0, i, flat(0, Zero))} : i \in Inners}

Examples == {seq(0, <<flat(0, Rat(2, 5)), sleep(0, Infinity)>>)}

\* seqs with an item whose time() override is zero or negative
Overrides ==
  {seq(0, <<flat(0, Zero), time(0, p, s)>>) :
     p \in {flat(0, One), map(0, UserFn("t"))}, s \in {Zero, Num(-1)}}

\* time() applied outside of any seq
Standalone ==
  {time(0, p, s) : p \in Leaves \cup {add(0, flat(0, Rat(1, 5)), map(0, UserFn("t")))},
                   s \in {Num(3), Zero}}

\* new Pattern("bogus", { h: 1 }): a kind compileNode has no case for
Unrecognised == MkPattern(0, "bogus", [h |-> NumV(One)])

Unknowns == {Unrecognised,
             seq(0, <<Unrecognised>>),
             seq(0, <<flat(0, Rat(1, 5)), Unrecognised>>),
             seq(0, <<Unrecognised, flat(0, One)>>)}

Programs ==
  {seq(0, ps) : ps \in SeqOf(Items, MaxItems)}
    \cup Nested \cup Leaves \cup Examples \cup Overrides \cup Standalone
    \cup Unknowns

\* ------------------------------------------------------------------------
\* State
\* ------------------------------------------------------------------------

VARIABLES
  registry,        \* Pattern._registry
  created,         \* the Patterns constructed since the last Pattern.clear()
  nextId,          \* identity of the next Pattern object
  pc,              \* "idle", or "script" while runCode is evaluating user code
  runs,            \* handleRun calls so far
  config,          \* the PendingConfig of the run in progress
  result,          \* <<the RunResult of the last runCode>>, <<>> before any
  compiledRoot,    \* <<the Pattern the last runCode passed to compile>>
  schedulerState,  \* SchedulerState
  frames,          \* animation frames so far
  frame,           \* <<what the last frame passed to the active pattern>>
  pat,             \* compiler harness: the Pattern given to compile()
  ctx,             \* compiler harness: the context given to compile()
  node,            \* compiler harness: <<compileNode's CompiledNode>>
  fn,              \* compiler harness: <<the PatternFn compile() returned>>
  out,             \* compiler harness: <<the last call of fn and its value>>
  again,           \* compiler harness: <<the PatternFn of a second compile()>>
  calls,           \* compiler harness: the calls made so far, in order
  resize,          \* left panel: <<the PanelResizeState>>, <<>> before it exists
  called,          \* left panel: <<the last call on the state and its result>>
  display          \* what handleRun applies a run's config to: grid, background, rotate mode

runtimeVars ==
  <<registry, created, nextId, pc, runs, config, result, compiledRoot,
    schedulerState, frames, frame>>

harnessVars == <<pat, ctx, node, fn, out, again, calls>>

resizeVars == <<resize, called>>

uiVars == <<resizeVars, display>>

vars == <<runtimeVars, harnessVars, uiVars>>

RuntimeInit ==
  /\ registry = <<>>
  /\ created = <<>>
  /\ nextId = 1
  /\ pc = "idle"
  /\ runs = 0
  /\ config = createPendingConfig
  /\ result = <<>>
  /\ compiledRoot = <<>>
  /\ schedulerState = createSchedulerState
  /\ frames = 0
  /\ frame = <<>>
  /\ resize = <<>>
  /\ called = <<>>
  /\ display = createDisplay

HarnessIdle ==
  /\ pat = <<>>
  /\ ctx = <<>>
  /\ node = <<>>
  /\ fn = <<>>
  /\ out = <<>>
  /\ again = <<>>
  /\ calls = <<>>

Init == RuntimeInit /\ HarnessIdle

\* ------------------------------------------------------------------------
\* The interpreter and the scheduler
\* ------------------------------------------------------------------------

\* handleRun -> runCode up to the call of the user's script: a fresh
\* PendingConfig and Pattern.clear().  overlay: the run comes from the click
\* on the start overlay, which sets started first.
RunBegin(overlay) ==
  /\ pc = "idle"
  /\ runs < MaxRuns
  /\ overlay => ~schedulerState.started
  /\ runs' = runs + 1
  /\ config' = createPendingConfig
  /\ registry' = PatternClear(registry)
  /\ created' = <<>>
  /\ pc' = "script"
  /\ schedulerState' = IF overlay THEN [schedulerState EXCEPT !.started = TRUE]
                       ELSE schedulerState
  /\ UNCHANGED <<nextId, result, compiledRoot, frames, frame, harnessVars, uiVars>>

\* The script evaluates `new Pattern(...)`, giving self.
Construct(self) ==
  /\ pc = "script"
  /\ nextId <= MaxNodes
  /\ registry' = PatternConstructor(registry, self)
  /\ created' = Append(created, self)
  /\ nextId' = nextId + 1
  /\ UNCHANGED <<pc, runs, config, result, compiledRoot, schedulerState,
                 frames, frame, harnessVars, uiVars>>

Created == {created[i] : i \in 1..Len(created)}

NewFlat == \E h \in Heights : Construct(flat(nextId, h))

NewInv == \E a \in Created : Construct(inv(nextId, a))

\* The constructor treats its arguments as a set of children, so the
\* operands are enumerated up to their order (a twice included).
NewAdd == \E a, b \in Created : a.id <= b.id /\ Construct(add(nextId, a, b))

NewSeq ==
  \E ps \in [1..2 -> Created] : ps[1].id <= ps[2].id /\ Construct(seq(nextId, ps))

\* handleRun, "Apply config changes": the fields of the run's PendingConfig
\* that are not null.
applyConfig(d, c) ==
  [grid |-> IF c.gridSize # <<>> /\ c.gridSize[1] # d.grid
              THEN c.gridSize[1] ELSE d.grid,
   background |-> IF c.background # <<>> THEN c.background[1] ELSE d.background,
   rotateMode |-> IF c.rotateMode # <<>> THEN c.rotateMode[1] ELSE d.rotateMode]

\* The script (or new Function) throws msg: runCode's catch, then handleRun,
\* which returns early on `if (result.error)`; an empty message is falsy, and
\* handleRun goes on to apply the config (there is no pattern to install).
ScriptThrows(msg) ==
  /\ pc = "script"
  /\ result' = <<[pattern |-> NullFn, config |-> config, error |-> <<msg>>,
                  warning |-> <<>>]>>
  /\ compiledRoot' = <<>>
  /\ display' = IF msg # "" THEN display ELSE applyConfig(display, config)
  /\ pc' = "idle"
  /\ UNCHANGED <<registry, created, nextId, runs, config, schedulerState,
                 frames, frame, harnessVars, resizeVars>>

\* Mutant of LastRoot: the oldest root is taken.
FirstRoot(roots) == roots[1]

\* roots[roots.length - 1]
LastRoot(roots) == roots[Len(roots)]

\* Mutant of Installed: the new function keeps the old program start time.
InstalledKeepsStartTime(roots, pattern) ==
  /\ result' = <<[pattern |-> pattern, config |-> config, error |-> <<>>,
                  warning |-> IF Len(roots) > 0 THEN <<>>
                              ELSE <<"No pattern created">>]>>
  /\ compiledRoot' = IF Len(roots) > 0 THEN <<LastRoot(roots)>> ELSE <<>>
  /\ schedulerState' =
       IF pattern # NullFn
         THEN [schedulerState EXCEPT !.activePattern = pattern]
         ELSE schedulerState

\* Mutant of Installed: a run without roots is reported like a successful one.
InstalledNoWarning(roots, pattern) ==
  /\ result' = <<[pattern |-> pattern, config |-> config, error |-> <<>>,
                  warning |-> <<>>]>>
  /\ compiledRoot' = IF Len(roots) > 0 THEN <<LastRoot(roots)>> ELSE <<>>
  /\ schedulerState' =
       IF pattern # NullFn
         THEN [schedulerState EXCEPT
                 !.activePattern = pattern,
                 !.programStartTime = schedulerState.globalTime]
         ELSE schedulerState

\* handleRun after a runCode that returned without error: pattern is the
\* compiled last root (NullFn when there is none).
Installed(roots, pattern) ==
  /\ result' = <<[pattern |-> pattern, config |-> config, error |-> <<>>,
                  warning |-> IF Len(roots) > 0 THEN <<>>
                              ELSE <<"No pattern created">>]>>
  /\ compiledRoot' = IF Len(roots) > 0 THEN <<LastRoot(roots)>> ELSE <<>>
  /\ schedulerState' =
       IF pattern # NullFn
         THEN [schedulerState EXCEPT
                 !.activePattern = pattern,
                 !.programStartTime = schedulerState.globalTime]
         ELSE schedulerState

\* The script returns: runCode compiles the last root, handleRun installs it.
ScriptReturns ==
  /\ pc = "script"
  /\ Installed(getRoots(registry),
               IF Len(getRoots(registry)) > 0
                 THEN compile(LastRoot(getRoots(registry)),
                              [secondsPerCycle |->
                                 IF config.secondsPerCycle # <<>>
                                   THEN config.secondsPerCycle[1] ELSE One],
                              <<>>)
                 ELSE NullFn)
  /\ display' = applyConfig(display, config)
  /\ pc' = "idle"
  /\ UNCHANGED <<registry, created, nextId, runs, config, frames, frame,
                 harnessVars, resizeVars>>

\* A number used as a condition
Truthy(v) == ~IsNaN(v) /\ v # Zero

\* updatePins: `if (patternFn && started)`, started being its fifth parameter.
updatePinsSamples(patternFn, started) == patternFn # NullFn /\ Truthy(started)

\* One pass of loop(): advance globalTime, sample the active pattern.  The
\* call of updatePins passes dt as its fifth argument and state.started as a
\* sixth one, which updatePins does not have.
Frame ==
  /\ pc = "idle"
  /\ frames < MaxFrames
  /\ frames' = frames + 1
  /\ \E dt \in Dts :
       LET globalTime == IF schedulerState.started
                           THEN Add(schedulerState.globalTime, dt)
                           ELSE schedulerState.globalTime
           patternTime == Sub(globalTime, schedulerState.programStartTime)
           sampled == updatePinsSamples(schedulerState.activePattern, dt)
       IN  /\ schedulerState' = [schedulerState EXCEPT !.globalTime = globalTime]
           /\ frame' = <<[patternTime |-> patternTime, sampled |-> sampled,
                          h |-> IF sampled
                                  THEN Apply(schedulerState.activePattern, Zero, Zero,
                                             patternTime, Num(32))
                                  ELSE Zero]>>
  /\ UNCHANGED <<registry, created, nextId, pc, runs, config, result,
                 compiledRoot, harnessVars, uiVars>>

Next ==
  \/ RunBegin(FALSE)
  \/ RunBegin(TRUE)
  \/ NewFlat
  \/ NewInv
  \/ NewAdd
  \/ NewSeq
  \/ ScriptThrows("boom")
  \/ ScriptReturns
  \/ Frame

Spec == Init /\ [][Next]_vars

\* ------------------------------------------------------------------------
\* The compiler on its own: compile(pat, ctx), then calls of the result
\* ------------------------------------------------------------------------

CompileInit ==
  /\ RuntimeInit
  /\ pat \in Programs
  /\ ctx \in Contexts
  /\ node = <<>>
  /\ fn = <<>>
  /\ out = <<>>
  /\ again = <<>>
  /\ calls = <<>>

Compile ==
  /\ fn = <<>>
  /\ node' = <<compileNode(pat, FullCtx(ctx), <<>>)>>
  /\ fn' = <<compile(pat, ctx, <<>>)>>
  /\ UNCHANGED <<pat, ctx, out, again, calls, runtimeVars, uiVars>>

Sample ==
  /\ fn # <<>>
  /\ out = <<>>
  /\ \E t \in Times :
       out' = <<[x |-> Zero, z |-> Zero, t |-> t, n |-> Num(32),
                 h |-> Apply(fn[1], Zero, Zero, t, Num(32))]>>
  /\ UNCHANGED <<pat, ctx, node, fn, again, calls, runtimeVars, uiVars>>

CompileNext == Compile \/ Sample

CompileSpec == CompileInit /\ [][CompileNext]_vars

\* ------------------------------------------------------------------------
\* add, mul and inv over a few operands: compile, then one call
\* ------------------------------------------------------------------------

mul(id, a, b) == MkPattern(id, "mul", [a |-> PatV(a), b |-> PatV(b)])

Operands ==
  {flat(0, Rat(6, 10)), flat(0, Rat(7, 10)), flat(0, Rat(1, 2)), flat(0, Rat(3, 10)),
   map(0, UserFn("t")), map(0, UserFn("nan")),
   seq(0, <<flat(0, Zero), flat(0, One)>>)}

Combined ==
  {add(0, a, b) : a, b \in Operands} \cup {mul(0, a, b) : a, b \in Operands}
    \cup {inv(0, a) : a \in Operands}

CombineInit ==
  /\ RuntimeInit
  /\ pat \in Combined
  /\ ctx \in Contexts
  /\ node = <<>>
  /\ fn = <<>>
  /\ out = <<>>
  /\ again = <<>>
  /\ calls = <<>>

CombineSpec == CombineInit /\ [][CompileNext]_vars

\* ------------------------------------------------------------------------
\* Sequences of primitives and of timed blocks: compile, then one call
\* ------------------------------------------------------------------------

LocalPrograms ==
  {seq(0, ps) : ps \in SeqOf(Leaves, MaxItems)} \cup {p \in Nested : p.type = "seq"}

LocalInit ==
  /\ RuntimeInit
  /\ pat \in LocalPrograms
  /\ ctx \in Contexts
  /\ node = <<>>
  /\ fn = <<>>
  /\ out = <<>>
  /\ again = <<>>
  /\ calls = <<>>

LocalSpec == LocalInit /\ [][CompileNext]_vars

\* ------------------------------------------------------------------------
\* Transforms and combinators, alone and as seq items: compile, then one call
\* ------------------------------------------------------------------------

blend(id, a, b, mix) ==
  MkPattern(id, "blend", [a |-> PatV(a), b |-> PatV(b), mix |-> NumV(mix)])

Sources ==
  {flat(0, Rat(1, 5)), seq(0, <<flat(0, Zero), flat(0, One)>>), sleep(0, Rat(1, 2))}

SlowedSources == Sources \cup {slow(0, p, Num(2)) : p \in Sources}

Wrappers ==
  UNION {{slow(0, p, Num(2)), fast(0, p, Num(2)), rotate(0, p, Zero),
          scale(0, p, One), offset(0, p), ease(0, p), inv(0, p)} :
         p \in SlowedSources}
    \cup UNION {{blend(0, p, q, Rat(1, 2)), add(0, p, q), mul(0, p, q)} :
                p \in SlowedSources, q \in Sources}

WrapperPrograms ==
  Wrappers \cup {seq(0, <<w>>) : w \in Wrappers}
    \cup {seq(0, <<flat(0, Rat(1, 5)), w>>) : w \in Wrappers}

WrapperInit ==
  /\ RuntimeInit
  /\ pat \in WrapperPrograms
  /\ ctx \in Contexts
  /\ node = <<>>
  /\ fn = <<>>
  /\ out = <<>>
  /\ again = <<>>
  /\ calls = <<>>

WrapperSpec == WrapperInit /\ [][CompileNext]_vars

\* ------------------------------------------------------------------------
\* Sequences with at most one item that is not a sleep: compile, one call
\* ------------------------------------------------------------------------

Sleeps == {sleep(0, Rat(1, 2)), sleep(0, Infinity)}

SingleItems ==
  {flat(0, Rat(1, 2)), map(0, UserFn("t")), time(0, map(0, UserFn("t")), Num(3))}

\* The item lists of length n with at most one item that is not a sleep.
SparseItems(n) ==
  {ps \in [1..n -> Sleeps \cup SingleItems] :
     Cardinality({i \in 1..n : ps[i] \in SingleItems}) <= 1}

SparsePrograms == {seq(0, ps) : ps \in UNION {SparseItems(n) : n \in 0..MaxItems}}

SparseInit ==
  /\ RuntimeInit
  /\ pat \in SparsePrograms
  /\ ctx \in Contexts
  /\ node = <<>>
  /\ fn = <<>>
  /\ out = <<>>
  /\ again = <<>>
  /\ calls = <<>>

SparseSpec == SparseInit /\ [][CompileNext]_vars

\* ------------------------------------------------------------------------
\* tween(): making a signal, then one call of it
\* ------------------------------------------------------------------------

\* easeFn is <<>> when the argument is left out: easeFn ?? smoothstep
tween(from, to, duration, easeFn) ==
  [op |-> "tween", from |-> from, to |-> to, duration |-> duration,
   eFn |-> IF easeFn = <<>> THEN "smoothstep" ELSE easeFn[1]]

TweenEnds == {Zero, Num(10), Num(5), Rat(1, 5)}

TweenDurations == {Num(2), Rat(1, 2), Zero, Num(-1)}

EaseFns == {<<>>, <<"linear">>, <<"halved">>}

SignalTimes == {Num(-1), Rat(-1, 2), Zero, Rat(1, 2), One, Num(2), Num(3)}

Tween ==
  /\ fn = <<>>
  /\ \E from, to \in TweenEnds, duration \in TweenDurations, easeFn \in EaseFns :
       fn' = <<tween(from, to, duration, easeFn)>>
  /\ UNCHANGED <<pat, ctx, node, out, again, calls, runtimeVars, uiVars>>

CallSignal ==
  /\ fn # <<>>
  /\ out = <<>>
  /\ \E t \in SignalTimes :
       out' = <<[x |-> Zero, z |-> Zero, t |-> t, n |-> Num(32),
                 h |-> Apply(fn[1], Zero, Zero, t, Num(32))]>>
  /\ UNCHANGED <<pat, ctx, node, fn, again, calls, runtimeVars, uiVars>>

SignalNext == Tween \/ CallSignal

SignalSpec == Init /\ [][SignalNext]_vars

\* ------------------------------------------------------------------------
\* The config setters on one PendingConfig
\* ------------------------------------------------------------------------

\* Math.floor of a finite number, as an integer
MathFloor(a) == a[1] \div a[2]

\* Math.round: the nearest integer, halves upwards; NaN and the infinities
\* are returned as they are.
MathRound(a) == IF IsFinite(a) THEN Num(MathFloor(Add(a, Rat(1, 2)))) ELSE a

UpperCase ==
  <<"A", "B", "C", "D", "E", "F", "G", "H", "I", "J", "K", "L", "M",
    "N", "O", "P", "Q", "R", "S", "T", "U", "V", "W", "X", "Y", "Z">>

LowerCase ==
  <<"a", "b", "c", "d", "e", "f", "g", "h", "i", "j", "k", "l", "m",
    "n", "o", "p", "q", "r", "s", "t", "u", "v", "w", "x", "y", "z">>

\* String.prototype.toLowerCase on a string given as its characters
toLowerCase(str) ==
  [i \in 1..Len(str) |->
     IF \E k \in 1..Len(UpperCase) : UpperCase[k] = str[i]
       THEN LowerCase[CHOOSE k \in 1..Len(UpperCase) : UpperCase[k] = str[i]]
       ELSE str[i]]

setdim(c, n) ==
  [c EXCEPT !.gridSize = <<MathMax(Num(2), MathMin(Num(64), MathRound(n)))>>]

setbackground(c, color) == [c EXCEPT !.background = <<color>>]

setrotate(c, mode) ==
  LET m == toLowerCase(mode)
  IN  IF m = <<"o", "n">> \/ m = <<"o", "f", "f">> \/ m = <<"a", "u", "t", "o">>
        THEN [c EXCEPT !.rotateMode = <<m>>]
        ELSE c

setspc(c, n) ==
  IF IsFinite(n) /\ Gt(n, Zero) THEN [c EXCEPT !.secondsPerCycle = <<n>>] ELSE c

DimInputs == {Num(100), Zero, Num(16), Rat(5, 2), Rat(-5, 2), Infinity, NaN}

Colors == {"#ff0000", "#000000"}

Modes == {<<"o", "n">>, <<"O", "F", "F">>, <<"A", "u", "t", "o">>,
          <<"i", "n", "v", "a", "l", "i", "d">>}

SpcInputs == {Rat(5, 2), Rat(1, 2), Zero, Num(-1), Infinity, NaN}

ConfigUnchanged ==
  UNCHANGED <<registry, created, nextId, pc, runs, result, compiledRoot,
              schedulerState, frames, frame, harnessVars, uiVars>>

Setdim == (\E n \in DimInputs : config' = setdim(config, n)) /\ ConfigUnchanged

Setbackground ==
  (\E color \in Colors : config' = setbackground(config, color)) /\ ConfigUnchanged

Setrotate == (\E mode \in Modes : config' = setrotate(config, mode)) /\ ConfigUnchanged

Setspc == (\E n \in SpcInputs : config' = setspc(config, n)) /\ ConfigUnchanged

ConfigNext == Setdim \/ Setbackground \/ Setrotate \/ Setspc

ConfigSpec == Init /\ [][ConfigNext]_vars

\* ------------------------------------------------------------------------
\* compile() called twice on one Pattern, and repeated calls of the results
\* ------------------------------------------------------------------------

RepeatPrograms == Nested \cup Leaves \cup Examples \cup Overrides \cup Standalone

RepeatTimes == {Rat(12, 10), Num(3)}

RepeatInit ==
  /\ RuntimeInit
  /\ pat \in RepeatPrograms
  /\ ctx \in Contexts
  /\ node = <<>>
  /\ fn = <<>>
  /\ out = <<>>
  /\ again = <<>>
  /\ calls = <<>>

\* Mutant of SecondCompile: the second call works with the default context.
SecondCompileDefaultContext(p, c) == compile(p, <<>>, <<-1>>)

\* A later call compile(p, c): its closures are new objects.
SecondCompile(p, c) == compile(p, c, <<-1>>)

Recompile ==
  /\ fn # <<>>
  /\ again = <<>>
  /\ again' = <<SecondCompile(pat, ctx)>>
  /\ UNCHANGED <<pat, ctx, node, fn, out, calls, runtimeVars, uiVars>>

\* A call of the first (which = 1) or the second (which = 2) compiled function.
Call(which) ==
  /\ fn # <<>>
  /\ which = 2 => again # <<>>
  /\ Len(calls) < MaxCalls
  /\ \E t \in RepeatTimes :
       calls' = Append(calls,
                       [which |-> which, x |-> Zero, z |-> Zero, t |-> t, n |-> Num(32),
                        h |-> Apply(IF which = 1 THEN fn[1] ELSE again[1],
                                    Zero, Zero, t, Num(32))])
  /\ UNCHANGED <<pat, ctx, node, fn, out, again, runtimeVars, uiVars>>

RepeatNext == Compile \/ Recompile \/ Call(1) \/ Call(2)

RepeatSpec == RepeatInit /\ [][RepeatNext]_vars

\* ------------------------------------------------------------------------
\* resolveArg and resolveArgWithContext on one argument value
\* ------------------------------------------------------------------------

\* The values an argument can have: numbers and undefined, callbacks,
\* Patterns.
ConstantArgs == {NumV(Rat(1, 2)), NumV(Zero), NumV(Num(-1)), Undefined}

FunctionArgs == {FnV(UserFn("t"))}

PatternArgs == {PatV(p) : p \in Leaves \cup Inners \cup {flat(0, Rat(7, 10))}}

\* pat holds the argument value, fn the result of resolveArgWithContext and
\* again that of resolveArg.
ResolveInit ==
  /\ RuntimeInit
  /\ \/ pat \in ConstantArgs
     \/ pat \in FunctionArgs
     \/ pat \in PatternArgs
  /\ ctx \in Contexts
  /\ node = <<>>
  /\ fn = <<>>
  /\ out = <<>>
  /\ again = <<>>
  /\ calls = <<>>

ResolveWithContext ==
  /\ fn = <<>>
  /\ fn' = <<resolveArgWithContext(pat, FullCtx(ctx), <<>>)>>
  /\ UNCHANGED <<pat, ctx, node, out, again, calls, runtimeVars, uiVars>>

Resolve ==
  /\ again = <<>>
  /\ again' = <<resolveArg(pat, <<-1>>)>>
  /\ UNCHANGED <<pat, ctx, node, fn, out, calls, runtimeVars, uiVars>>

ResolveNext == ResolveWithContext \/ Resolve \/ Call(1) \/ Call(2)

ResolveSpec == ResolveInit /\ [][ResolveNext]_vars

\* ------------------------------------------------------------------------
\* Properties of the root registry and the interpreter (Spec)
\* ------------------------------------------------------------------------

\* p was passed to the construction of q as an argument value, directly or as
\* an element of an array-valued argument.
PassedTo(p, q) ==
  \E k \in DOMAIN q.args :
    \/ q.args[k] = PatV(p)
    \/ /\ q.args[k].k = "arr"
       /\ \E i \in 1..Len(q.args[k].v) : q.args[k].v[i] = PatV(p)

\* The Patterns constructed since the last clear() that no later construction
\* received as an argument.
Unconsumed == {p \in Created : ~\E q \in Created : q.id > p.id /\ PassedTo(p, q)}

Registered == {registry[i] : i \in 1..Len(registry)}

\* C1: after any sequence of constructions since the last Pattern.clear(),
\* getRoots() holds exactly the Patterns of that sequence never passed as an
\* argument (directly or inside an array) to a later construction, each once;
\* passing an already consumed Pattern again changes nothing.
C1_RootsAreUnconsumed ==
  /\ {getRoots(registry)[i] : i \in 1..Len(getRoots(registry))} = Unconsumed
  /\ Len(getRoots(registry)) = Cardinality(Unconsumed)

\* C1 witness: a Pattern consumed twice, the second time inside an array.
C1_Witness ==
  \E p, q1, q2 \in Created :
    /\ q1.id < q2.id
    /\ q1.args # q2.args
    /\ PassedTo(p, q1)
    /\ PassedTo(p, q2)
    /\ q2.type = "seq"
    /\ p \notin Registered

\* The run in progress or last finished returned from runCode without error.
RunSucceeded == pc = "idle" /\ result # <<>> /\ result[1].error = <<>>

\* The most recently created of the unconsumed Patterns.
NewestUnconsumed == CHOOSE p \in Unconsumed : \A q \in Unconsumed : q.id <= p.id

\* C2: getRoots() lists the roots in creation order, and a run that leaves
\* several unconsumed Patterns compiles the most recently created of them
\* (`flat(0.2); flat(0.8)` samples 0.8).
C2_LastRootWins ==
  /\ \A i, j \in 1..Len(getRoots(registry)) :
       i < j => getRoots(registry)[i].id < getRoots(registry)[j].id
  /\ (RunSucceeded /\ Unconsumed # {}) =>
       /\ compiledRoot = <<NewestUnconsumed>>
       /\ result[1].pattern # NullFn
       /\ schedulerState.activePattern = result[1].pattern
       /\ NewestUnconsumed.type = "flat" =>
            Apply(result[1].pattern, Zero, Zero, Zero, Num(32))
              = NewestUnconsumed.args.h.v

\* C2 witness: the script `flat(0.2); flat(0.8)` has run.
C2_Witness ==
  /\ RunSucceeded
  /\ Len(registry) = 2
  /\ registry[1].type = "flat" /\ registry[1].args.h.v = Rat(1, 5)
  /\ registry[2].type = "flat" /\ registry[2].args.h.v = Rat(4, 5)
  /\ Apply(result[1].pattern, Zero, Zero, Zero, Num(32)) = Rat(4, 5)

\* C3: every run starts from an empty registry: while a script runs and after
\* it, the registry holds only Patterns of that run; the Pattern a run
\* compiles was created in that run; a run that creates none reports
\* 'No pattern created', whatever earlier runs left behind.
C3_RegistryResetPerRun ==
  /\ Registered \subseteq Created
  /\ RunSucceeded =>
       /\ compiledRoot # <<>> => compiledRoot[1] \in Created
       /\ created = <<>> =>
            /\ result[1].pattern = NullFn
            /\ result[1].warning = <<"No pattern created">>
            /\ compiledRoot = <<>>

\* C3 witness: the second run creates nothing after a first run that created
\* Patterns, and reports the warning.
C3_Witness ==
  /\ RunSucceeded
  /\ runs = 2
  /\ nextId > 1
  /\ created = <<>>
  /\ result[1].warning = <<"No pattern created">>

\* ------------------------------------------------------------------------
\* Properties of the compiler (CompileSpec)
\* ------------------------------------------------------------------------

\* The items of the seq pat, as written.
ItemsOf(p) == AsPatterns(p.args.patterns)

spcOf == FullCtx(ctx).secondsPerCycle

\* Reference value at x = z = 0 and local time lt of a primitive item.
LeafValue(p, lt) ==
  IF p.type = "flat" THEN p.args.h.v
  ELSE ApplyUser(p.args.fn.v.name, Zero, Zero, lt, Num(32))

\* Two items compile to one and the same function object: map() returns the
\* user's callback itself, every other kind a fresh closure.
SameFunction(p, q) ==
  p.type = "map" /\ q.type = "map" /\ p.args.fn.v = q.args.fn.v

\* A sample of the compiled top-level seq of two primitive items was taken.
TwoItemCase ==
  /\ out # <<>>
  /\ pat.type = "seq"
  /\ Len(ItemsOf(pat)) = 2
  /\ \A i \in 1..2 : ItemsOf(pat)[i] \in Leaves

\* Reference timeline of seq(p1, p2) with item duration d, crossfade tt and,
\* when wrap holds, a closing crossfade back to p1; sampled at time t.
TwoItemTimeline(p1, p2, d, tt, wrap, t) ==
  LET period == IF wrap THEN Add(Add(d, d), Add(tt, tt)) ELSE Add(Add(d, d), tt)
      lt == Mod(t, period)
      a1 == d
      a2 == Add(d, tt)
      a3 == Add(Add(d, d), tt)
  IN  IF Lt(lt, a1) THEN LeafValue(p1, lt)
      ELSE IF Lt(lt, a2)
        THEN Mix(LeafValue(p1, Sub(lt, a1)), LeafValue(p2, Sub(lt, a1)),
                 smoothstep(Div(Sub(lt, a1), tt)))
      ELSE IF Lt(lt, a3) THEN LeafValue(p2, Sub(lt, a2))
      ELSE Mix(LeafValue(p2, Sub(lt, a3)), LeafValue(p1, Sub(lt, a3)),
               smoothstep(Div(Sub(lt, a3), tt)))

\* The script seq(flat(0), flat(1)) compiled with the default context.
ZeroOneCase ==
  /\ TwoItemCase
  /\ ctx = <<>>
  /\ ItemsOf(pat) = <<flat(0, Zero), flat(0, One)>>

\* C4 as stated: every top-level seq of two primitive items plays item 1 on
\* [0,d), a crossfade on [d,d+tt), item 2 on [d+tt,2d+tt) and a wrap
\* crossfade on [2d+tt,2d+2tt), tt = min(0.8, 0.4d), then repeats.
C4_AlwaysWraps ==
  TwoItemCase =>
    out[1].h = TwoItemTimeline(ItemsOf(pat)[1], ItemsOf(pat)[2], spcOf,
                               MathMin(Rat(8, 10), Mul(Rat(4, 10), spcOf)),
                               TRUE, out[1].t)

\* C4, amended: a top-level seq of two primitive items plays item 1 on [0,d),
\* a crossfade on [d,d+tt), item 2 on [d+tt,2d+tt), tt = min(0.8, 0.4d), and
\* then a wrap crossfade on [2d+tt,2d+2tt) unless both items are map() of one
\* callback, in which case the loop restarts at 2d+tt. For flat(0), flat(1)
\* and d = 1: 0 at t=0.5, strictly between 0 and 1 at t=1.2, 1 at t=1.5,
\* 0 at t=3.0.
C4_TwoItemTimeline ==
  /\ TwoItemCase =>
       out[1].h = TwoItemTimeline(ItemsOf(pat)[1], ItemsOf(pat)[2], spcOf,
                                  MathMin(Rat(8, 10), Mul(Rat(4, 10), spcOf)),
                                  ~SameFunction(ItemsOf(pat)[1], ItemsOf(pat)[2]),
                                  out[1].t)
  /\ ZeroOneCase =>
       /\ out[1].t = Rat(1, 2) => out[1].h = Zero
       /\ out[1].t = Rat(12, 10) => Lt(Zero, out[1].h) /\ Lt(out[1].h, One)
       /\ out[1].t = Rat(15, 10) => out[1].h = One
       /\ out[1].t = Num(3) => out[1].h = Zero

\* C4 witness: seq(flat(0), flat(1)) sampled inside its wrap crossfade.
C4_Witness ==
  /\ ZeroOneCase
  /\ out[1].t = Rat(25, 10)
  /\ Lt(Zero, out[1].h) /\ Lt(out[1].h, One)

\* The indices of the segments of kind k of a compiled seq.
SegsOfType(segs, k) == {i \in 1..Len(segs) : segs[i].type = k}

SegLen(seg) == Sub(seg.e, seg.s)

\* The compiled node is that of a seq.
SeqCompiled == node # <<>> /\ pat.type = "seq"

\* C5: every crossfade segment of a compiled seq lasts min(0.8, 0.4 D) with D
\* the duration of the segment of the item faded in; the wrap crossfade that
\* compile() appends uses the first item's duration; none exceeds 0.8 s.
C5_CrossfadeLength ==
  SeqCompiled =>
    /\ \A i \in SegsOfType(node[1].fn.segs, "x") :
         /\ i < Len(node[1].fn.segs)
         /\ node[1].fn.segs[i + 1].type = "p"
         /\ node[1].fn.segs[i].to = node[1].fn.segs[i + 1].fn
         /\ SegLen(node[1].fn.segs[i])
              = MathMin(Rat(8, 10), Mul(Rat(4, 10), SegLen(node[1].fn.segs[i + 1])))
         /\ Le(SegLen(node[1].fn.segs[i]), Rat(8, 10))
    /\ fn[1].op = "loopWrap" =>
         /\ Sub(fn[1].loopDur, node[1].duration)
              = MathMin(Rat(8, 10),
                        Mul(Rat(4, 10),
                            SegLen(node[1].fn.segs[
                              CHOOSE i \in SegsOfType(node[1].fn.segs, "p") :
                                \A j \in SegsOfType(node[1].fn.segs, "p") : i <= j])))
         /\ Le(Sub(fn[1].loopDur, node[1].duration), Rat(8, 10))
         /\ fn[1].tt = Sub(fn[1].loopDur, node[1].duration)

\* C5 witness: a seq whose crossfade into a 3 s item is capped at 0.8 s while
\* its wrap crossfade, into a shorter first item, is not.
C5_Witness ==
  /\ SeqCompiled
  /\ fn[1].op = "loopWrap"
  /\ Lt(fn[1].tt, Rat(8, 10))
  /\ \E i \in SegsOfType(node[1].fn.segs, "x") :
       /\ SegLen(node[1].fn.segs[i]) = Rat(8, 10)
       /\ SegLen(node[1].fn.segs[i + 1]) = Num(3)

\* The first and the last pattern segment of a compiled seq.
FirstP(segs) ==
  segs[CHOOSE i \in SegsOfType(segs, "p") : \A j \in SegsOfType(segs, "p") : i <= j]

LastP(segs) ==
  segs[CHOOSE i \in SegsOfType(segs, "p") : \A j \in SegsOfType(segs, "p") : j <= i]

\* A sample was taken of a compiled seq of finite positive duration.
FiniteSeqCase ==
  /\ SeqCompiled
  /\ out # <<>>
  /\ IsFinite(node[1].duration)
  /\ Gt(node[1].duration, Zero)

\* W of C6: the wrap crossfade length of a compiled seq given its segments.
WrapLength(segs) ==
  IF FirstP(segs).fn # LastP(segs).fn
    THEN MathMin(Rat(8, 10), Mul(Rat(4, 10), SegLen(FirstP(segs))))
    ELSE Zero

\* C6: compile() of a seq of finite positive duration D returns a function of
\* period D + W for t >= 0, W = min(0.8, 0.4 * first item's duration) when
\* the first and last item functions differ and 0 otherwise; on [D, D+W) of
\* each period it is the smoothstep blend from the last item to the first.
C6_Periodic ==
  FiniteSeqCase =>
    /\ \A k \in 1..MaxPeriods :
         Apply(fn[1], Zero, Zero,
               Add(out[1].t, Mul(Num(k), Add(node[1].duration,
                                            WrapLength(node[1].fn.segs)))),
               Num(32)) = out[1].h
    /\ Le(node[1].duration,
          Mod(out[1].t, Add(node[1].duration, WrapLength(node[1].fn.segs)))) =>
         out[1].h =
           Mix(Apply(LastP(node[1].fn.segs).fn, Zero, Zero,
                     Sub(Mod(out[1].t, Add(node[1].duration,
                                           WrapLength(node[1].fn.segs))),
                         node[1].duration), Num(32)),
               Apply(FirstP(node[1].fn.segs).fn, Zero, Zero,
                     Sub(Mod(out[1].t, Add(node[1].duration,
                                           WrapLength(node[1].fn.segs))),
                         node[1].duration), Num(32)),
               smoothstep(Div(Sub(Mod(out[1].t, Add(node[1].duration,
                                                    WrapLength(node[1].fn.segs))),
                                  node[1].duration),
                              WrapLength(node[1].fn.segs))))

\* C6 witness: a sample in the wrap crossfade of a later period that lies
\* strictly between the values of the first and the last item.
C6_Witness ==
  /\ FiniteSeqCase
  /\ Gt(WrapLength(node[1].fn.segs), Zero)
  /\ Le(Add(node[1].duration, WrapLength(node[1].fn.segs)), out[1].t)
  /\ Lt(node[1].duration,
        Mod(out[1].t, Add(node[1].duration, WrapLength(node[1].fn.segs))))
  /\ Len(ItemsOf(pat)) = 3
  /\ out[1].h # Apply(FirstP(node[1].fn.segs).fn, Zero, Zero, Zero, Num(32))
  /\ out[1].h # Apply(LastP(node[1].fn.segs).fn, Zero, Zero, Zero, Num(32))

\* An item is a sleep of infinite duration.
IsInfiniteSleep(p) == p.type = "sleep" /\ ~IsFinite(p.args.duration.v)

InfiniteSleeps(items) == {i \in 1..Len(items) : IsInfiniteSleep(items[i])}

FirstInfiniteSleep(items) ==
  CHOOSE i \in InfiniteSleeps(items) : \A j \in InfiniteSleeps(items) : i <= j

\* The pattern (non-sleep) items among the first n items.
PatternItemsBefore(items, n) == {i \in 1..(n - 1) : items[i].type # "sleep"}

\* Reference duration of an item that is a primitive or p.time(s).
ItemDuration(p) == IF p.type = "time" THEN p.args.seconds.v ELSE spcOf

\* Reference value of an item that is a primitive or primitive.time(s), at
\* item-local time lt: p.time(s) plays p at lt * N / s, N = secondsPerCycle.
ItemValue(p, lt) ==
  IF p.type = "time"
    THEN LeafValue(p.args.source.v, Mul(lt, Div(spcOf, p.args.seconds.v)))
    ELSE LeafValue(p, lt)

\* Reference end time of the first n items of a seq of primitives, sleeps and
\* primitive.time(s): a sleep before any pattern takes no time, a pattern
\* after a pattern is preceded by its crossfade.
RECURSIVE EndOfItem(_, _)
EndOfItem(items, n) ==
  IF n = 0 THEN Zero
  ELSE IF items[n].type = "sleep"
    THEN IF PatternItemsBefore(items, n) = {}
           THEN EndOfItem(items, n - 1)
           ELSE Add(EndOfItem(items, n - 1), items[n].args.duration.v)
    ELSE IF PatternItemsBefore(items, n) = {}
      THEN ItemDuration(items[n])
      ELSE Add(Add(EndOfItem(items, n - 1),
                   MathMin(Rat(8, 10), Mul(Rat(4, 10), ItemDuration(items[n])))),
               ItemDuration(items[n]))

\* A seq with a sleep(Infinity) among its items was compiled.
InfiniteHoldCase ==
  /\ SeqCompiled
  /\ \A i \in 1..Len(ItemsOf(pat)) : ItemsOf(pat)[i].type # "seq"
  /\ InfiniteSleeps(ItemsOf(pat)) # {}

\* C7: a seq containing sleep(Infinity) has duration Infinity, is returned by
\* compile() without modulo looping, schedules no item after the sleep, and
\* from the start of the hold on outputs the last pattern item before the
\* sleep for every t (seq(flat(0.4), sleep(Infinity)) gives 0.4 at t = 0,
\* 100 and 10000).
C7_InfiniteHold ==
  InfiniteHoldCase =>
    /\ node[1].duration = Infinity
    /\ fn[1] = node[1].fn
    /\ fn[1].op = "seq"
    /\ Cardinality(SegsOfType(fn[1].segs, "p"))
         = Cardinality(PatternItemsBefore(ItemsOf(pat),
                                          FirstInfiniteSleep(ItemsOf(pat))))
    /\ fn[1].segs[Len(fn[1].segs)].type = "h"
    /\ fn[1].segs[Len(fn[1].segs)].e = Infinity
    /\ (out # <<>>
        /\ PatternItemsBefore(ItemsOf(pat), FirstInfiniteSleep(ItemsOf(pat))) # {}
        /\ Le(EndOfItem(ItemsOf(pat), FirstInfiniteSleep(ItemsOf(pat)) - 1),
              out[1].t)) =>
         out[1].h =
           ItemValue(
             ItemsOf(pat)[CHOOSE i \in PatternItemsBefore(ItemsOf(pat),
                                         FirstInfiniteSleep(ItemsOf(pat))) :
                            \A j \in PatternItemsBefore(ItemsOf(pat),
                                         FirstInfiniteSleep(ItemsOf(pat))) : j <= i],
             Sub(out[1].t,
                 EndOfItem(ItemsOf(pat), FirstInfiniteSleep(ItemsOf(pat)) - 1)))
    /\ (out # <<>> /\ pat \in Examples /\ out[1].t \in {Zero, Num(100), Num(10000)}) =>
         out[1].h = Rat(2, 5)

\* C7 witness: flat(0), then sleep(Infinity), then flat(1) that is never
\* reached: the sample at t = 10000 is still 0.
C7_Witness ==
  /\ InfiniteHoldCase
  /\ out # <<>>
  /\ ItemsOf(pat) = <<flat(0, Zero), sleep(0, Infinity), flat(0, One)>>
  /\ out[1].t = Num(10000)
  /\ out[1].h = Zero

LoopOps == {"loopWrap", "loopMod"}

\* compile() returned one of its two looping closures.
IsLooped == fn # <<>> /\ fn[1].op \in LoopOps

ForwardingTypes ==
  {"rotate", "scale", "offset", "slow", "fast", "ease", "inv", "time"}

\* p is a seq, or a seq under a chain of transforms and time().
RECURSIVE IsSeqChain(_)
IsSeqChain(p) ==
  \/ p.type = "seq"
  \/ p.type \in ForwardingTypes /\ IsSeqChain(p.args.source.v)

\* f is not a looping closure, nor a time or transform closure directly over one.
PlaysOnce(f) ==
  /\ f.op \notin LoopOps
  /\ f.op \in {"rescale", "pass", "slow", "fast", "inv"} => f.srcFn.op \notin LoopOps

PlainSeqCase ==
  /\ SeqCompiled
  /\ \A i \in 1..Len(ItemsOf(pat)) : ItemsOf(pat)[i] \in Items

\* The pattern items the planning loop reaches.
Scheduled(items) ==
  {i \in 1..Len(items) :
     /\ items[i].type # "sleep"
     /\ \A j \in InfiniteSleeps(items) : i < j}

\* Reference start time of item i of a seq.
StartOfItem(items, i) == Sub(EndOfItem(items, i), ItemDuration(items[i]))

\* The sample was taken inside the first playthrough of item i's segment.
SampledInItem(items, i) ==
  /\ out # <<>>
  /\ Le(StartOfItem(items, i), out[1].t)
  /\ Lt(out[1].t, EndOfItem(items, i))
  /\ Lt(out[1].t, node[1].duration)

\* A seq whose single item is innerSeq.time(s) was compiled.
TimedSeqCase ==
  /\ SeqCompiled
  /\ Len(ItemsOf(pat)) = 1
  /\ ItemsOf(pat)[1].type = "time"
  /\ ItemsOf(pat)[1].args.source.v.type = "seq"

\* C9: inside a seq an item p.time(s), s finite and positive, occupies a
\* pattern segment of exactly s seconds, and with p's natural duration N
\* finite and positive p is sampled at segment-local time times N / s;
\* an item without a time wrapper occupies its own compiled duration and is
\* sampled at segment-local time.
C9_TimeOverride ==
  /\ PlainSeqCase =>
       \A i \in Scheduled(ItemsOf(pat)) :
         /\ \E k \in SegsOfType(node[1].fn.segs, "p") :
              /\ node[1].fn.segs[k].s = StartOfItem(ItemsOf(pat), i)
              /\ node[1].fn.segs[k].e = EndOfItem(ItemsOf(pat), i)
              /\ SegLen(node[1].fn.segs[k]) = ItemDuration(ItemsOf(pat)[i])
         /\ SampledInItem(ItemsOf(pat), i) =>
              out[1].h = ItemValue(ItemsOf(pat)[i],
                                   Sub(out[1].t, StartOfItem(ItemsOf(pat), i)))
  /\ TimedSeqCase =>
       /\ Len(node[1].fn.segs) = 1
       /\ node[1].fn.segs[1].type = "p"
       /\ SegLen(node[1].fn.segs[1]) = ItemsOf(pat)[1].args.seconds.v
       /\ node[1].fn.segs[1].fn.op = "rescale"
       /\ (out # <<>> /\ Lt(out[1].t, ItemsOf(pat)[1].args.seconds.v)) =>
            out[1].h =
              Apply(node[1].fn.segs[1].fn.srcFn, Zero, Zero,
                    Mul(out[1].t,
                        Div(EndOfItem(ItemsOf(ItemsOf(pat)[1].args.source.v), 2),
                            ItemsOf(pat)[1].args.seconds.v)),
                    Num(32))

\* C9 witness: a sample inside the 3 s segment of map(t).time(3) that differs
\* from what the unscaled item would give at the same local time.
C9_Witness ==
  /\ PlainSeqCase
  /\ \E i \in Scheduled(ItemsOf(pat)) :
       /\ ItemsOf(pat)[i].type = "time"
       /\ i > 1
       /\ SampledInItem(ItemsOf(pat), i)
       /\ Lt(StartOfItem(ItemsOf(pat), i), out[1].t)
       /\ out[1].h # LeafValue(ItemsOf(pat)[i].args.source.v,
                               Sub(out[1].t, StartOfItem(ItemsOf(pat), i)))

\* seq(a, innerSeq.time(1.4)) was compiled with the default secondsPerCycle,
\* innerSeq a seq of two primitives.
CompressedSeqCase ==
  /\ SeqCompiled
  /\ ctx = <<>>
  /\ Len(ItemsOf(pat)) = 2
  /\ ItemsOf(pat)[1] \in Leaves \cup {flat(0, Rat(1, 5))}
  /\ ItemsOf(pat)[2].type = "time"
  /\ ItemsOf(pat)[2].args.seconds.v = Rat(7, 5)
  /\ ItemsOf(pat)[2].args.source.v \in Inners

\* C10: in seq(a, innerSeq.time(1.4)) with the default secondsPerCycle,
\* innerSeq of two primitives has natural duration 2.8 s and is compressed by
\* a factor of 2: the timed block at its local time 1.0 evaluates innerSeq at
\* its local time 2.0.
C10_CompressedByTwo ==
  CompressedSeqCase =>
    /\ LastP(node[1].fn.segs).fn.op = "rescale"
    /\ LastP(node[1].fn.segs).fn.scale = Num(2)
    /\ Mul(LastP(node[1].fn.segs).fn.scale, SegLen(LastP(node[1].fn.segs)))
         = Rat(28, 10)
    /\ Apply(LastP(node[1].fn.segs).fn, Zero, Zero, One, Num(32))
         = Apply(LastP(node[1].fn.segs).fn.srcFn, Zero, Zero, Num(2), Num(32))

\* A seq whose second item is p.time(s) with s zero or negative was compiled.
NonPositiveOverrideCase ==
  /\ SeqCompiled
  /\ pat \in Overrides

\* C11: a seq item wrapped in time(0) or time(negative) is scheduled exactly
\* like the unwrapped item: its segment lasts the item's natural duration,
\* the crossfade into it is computed from that duration, and every segment
\* ends no earlier than it starts.
C11_NonPositiveOverrideIgnored ==
  NonPositiveOverrideCase =>
    /\ node[1] = compileNode(seq(0, <<ItemsOf(pat)[1], ItemsOf(pat)[2].args.source.v>>),
                             FullCtx(ctx), <<>>)
    /\ SegLen(LastP(node[1].fn.segs)) = spcOf
    /\ \A i \in SegsOfType(node[1].fn.segs, "x") :
         SegLen(node[1].fn.segs[i]) = MathMin(Rat(8, 10), Mul(Rat(4, 10), spcOf))
    /\ \A i \in 1..Len(node[1].fn.segs) :
         Le(node[1].fn.segs[i].s, node[1].fn.segs[i].e)

\* Reference splice: the items of a seq with every bare nested seq replaced
\* by its own items, at any depth.
RECURSIVE Spliced(_)
Spliced(items) ==
  IF items = <<>> THEN <<>>
  ELSE (IF Head(items).type = "seq" THEN Spliced(ItemsOf(Head(items)))
        ELSE <<Head(items)>>) \o Spliced(Tail(items))

\* A seq with a bare seq among its items was compiled.
NestedSeqCase ==
  /\ SeqCompiled
  /\ \E i \in 1..Len(ItemsOf(pat)) : ItemsOf(pat)[i].type = "seq"

\* A seq with a time-wrapped seq as its second item was compiled.
TimedBlockCase ==
  /\ SeqCompiled
  /\ Len(ItemsOf(pat)) = 2
  /\ ItemsOf(pat)[1].type = "flat"
  /\ ItemsOf(pat)[2].type = "time"
  /\ ItemsOf(pat)[2].args.source.v.type = "seq"

HoldCase ==
  /\ PlainSeqCase
  /\ Len(ItemsOf(pat)) = 3
  /\ ItemsOf(pat)[1].type # "sleep"
  /\ ItemsOf(pat)[2].type = "sleep"
  /\ IsFinite(ItemsOf(pat)[2].args.duration.v)
  /\ Gt(ItemsOf(pat)[2].args.duration.v, Zero)
  /\ ItemsOf(pat)[3].type # "sleep"

\* The sample was taken during the hold of HoldCase.
SampledInHold ==
  /\ out # <<>>
  /\ Le(ItemDuration(ItemsOf(pat)[1]), out[1].t)
  /\ Lt(out[1].t, Add(ItemDuration(ItemsOf(pat)[1]), ItemsOf(pat)[2].args.duration.v))

StandaloneTimeCase ==
  /\ out # <<>>
  /\ pat.type = "time"
  /\ pat.args.source.v.type # "seq"

\* C14: outside a seq time() does not change the output: for every source
\* that is not itself a seq and every seconds value,
\* compile(source.time(seconds)) returns what compile(source) returns at
\* every (x, z, t, n).
C14_TimeTransparent ==
  StandaloneTimeCase =>
    out[1].h = Apply(compile(pat.args.source.v, ctx, <<>>),
                     out[1].x, out[1].z, out[1].t, out[1].n)

SuccessfulRun == pc = "script" /\ pc' = "idle" /\ result'[1].pattern # NullFn

\* A pass of loop()
FrameStep == frames' # frames

\* C17 as stated: at the first frame after a run installed a function (no time
\* has passed since programStartTime was set), the function is sampled at
\* t = 0.
C17_FirstFrameAtZero ==
  [][(/\ FrameStep
      /\ schedulerState.activePattern # NullFn
      /\ schedulerState.programStartTime = schedulerState.globalTime)
       => frame'[1].patternTime = Zero]_vars

\* C17, amended: activePattern and programStartTime change only in the step
\* that ends a successful run, and together: programStartTime becomes the
\* globalTime of that step.  Every frame computes t = globalTime -
\* programStartTime after advancing globalTime, so t is never negative, and at
\* the first frame after an install t is that frame's dt when the scheduler
\* has started and 0 when it has not.
C17_AtomicSwap ==
  [][/\ SuccessfulRun =>
          schedulerState' = [schedulerState EXCEPT
                               !.activePattern = result'[1].pattern,
                               !.programStartTime = schedulerState.globalTime]
     /\ ~SuccessfulRun =>
          /\ schedulerState'.activePattern = schedulerState.activePattern
          /\ schedulerState'.programStartTime = schedulerState.programStartTime
     /\ FrameStep =>
          /\ frame'[1].patternTime =
               Sub(schedulerState'.globalTime, schedulerState.programStartTime)
          /\ Le(Zero, frame'[1].patternTime)
          /\ frame'[1].sampled =>
               frame'[1].h = Apply(schedulerState.activePattern, Zero, Zero,
                                   frame'[1].patternTime, Num(32))
          /\ schedulerState.programStartTime = schedulerState.globalTime =>
               IF schedulerState.started
                 THEN frame'[1].patternTime \in Dts
                 ELSE frame'[1].patternTime = Zero]_vars

\* C17 witness: a frame, then a re-run that installs a function at
\* globalTime > 0, then the first frame after it, sampled at t = dt.
C17_Witness ==
  /\ runs = 2 /\ frames = 2 /\ pc = "idle"
  /\ schedulerState.started
  /\ Lt(Zero, schedulerState.programStartTime)
  /\ frame # <<>> /\ frame[1].sampled
  /\ frame[1].patternTime \in Dts
  /\ schedulerState.globalTime =
       Add(schedulerState.programStartTime, frame[1].patternTime)

\* C18: after any sequence of setter calls gridSize is null or an integer in
\* [2, 64], secondsPerCycle is null or a positive finite number, and
\* rotateMode is null or one of on, off, auto.
C18_ConfigRanges ==
  /\ \/ config.gridSize = <<>>
     \/ /\ IsFinite(config.gridSize[1])
        /\ config.gridSize[1][2] = 1
        /\ config.gridSize[1][1] \in 2..64
  /\ \/ config.secondsPerCycle = <<>>
     \/ IsFinite(config.secondsPerCycle[1]) /\ Gt(config.secondsPerCycle[1], Zero)
  /\ \/ config.rotateMode = <<>>
     \/ config.rotateMode[1] \in {<<"o", "n">>, <<"o", "f", "f">>, <<"a", "u", "t", "o">>}

\* A seq of flats and nodes of the unknown kind was compiled.
UnknownItemCase ==
  /\ SeqCompiled
  /\ \A i \in 1..Len(ItemsOf(pat)) : ItemsOf(pat)[i].type \in {"flat", "bogus"}
  /\ \E i \in 1..Len(ItemsOf(pat)) : ItemsOf(pat)[i].type = "bogus"

\* C19: a node of a kind the compiler does not know compiles, without an
\* error, to the function that is 0 everywhere, with duration
\* secondsPerCycle and no looping; as an item of a seq it gets a pattern
\* segment of secondsPerCycle seconds, placed like that of a primitive, in
\* which the output is 0.
C19_UnknownKind ==
  /\ (node # <<>> /\ pat.type = "bogus") =>
       /\ node[1].duration = spcOf
       /\ fn[1] = node[1].fn
       /\ fn[1].op = "zero"
       /\ out # <<>> => out[1].h = Zero
  /\ UnknownItemCase =>
       \A i \in 1..Len(ItemsOf(pat)) :
         /\ \E k \in SegsOfType(node[1].fn.segs, "p") :
              /\ node[1].fn.segs[k].s = StartOfItem(ItemsOf(pat), i)
              /\ node[1].fn.segs[k].e = EndOfItem(ItemsOf(pat), i)
              /\ SegLen(node[1].fn.segs[k]) = spcOf
              /\ ItemsOf(pat)[i].type = "bogus" => node[1].fn.segs[k].fn.op = "zero"
         /\ (SampledInItem(ItemsOf(pat), i) /\ ItemsOf(pat)[i].type = "bogus") =>
              out[1].h = Zero

\* C19 witness: seq(flat(0.2), bogus) sampled inside the segment of its second
\* item, where it is 0.
C19_Witness ==
  /\ UnknownItemCase
  /\ Len(ItemsOf(pat)) = 2
  /\ ItemsOf(pat)[1].type = "flat"
  /\ SampledInItem(ItemsOf(pat), 2)
  /\ out[1].h = Zero

\* The sample points a resolved argument is compared at
ArgPoints == {<<x, t>> : x \in {Zero, One}, t \in RepeatTimes}

\* The two resolved functions and every logged call agree with f and g, the
\* functions expected of resolveArgWithContext and resolveArg.
ResolvedAs(f, g) ==
  /\ fn # <<>> => \A q \in ArgPoints :
       Apply(fn[1], q[1], Zero, q[2], Num(32)) = Apply(f, q[1], Zero, q[2], Num(32))
  /\ again # <<>> => \A q \in ArgPoints :
       Apply(again[1], q[1], Zero, q[2], Num(32)) = Apply(g, q[1], Zero, q[2], Num(32))
  /\ \A i \in 1..Len(calls) :
       calls[i].h = Apply(IF calls[i].which = 1 THEN f ELSE g,
                          Zero, Zero, calls[i].t, Num(32))

\* C20: resolving an argument value dispatches three ways: a Pattern is
\* compiled (with the caller's context by resolveArgWithContext, with the
\* default one by resolveArg) and the compiled function is used; a function
\* is returned as the same object; any other value v, undefined included,
\* gives a function that returns v at every sample point.
C20_ThreeWayDispatch ==
  pat # <<>> =>
    CASE pat.k = "pat" ->
           ResolvedAs(compile(pat.v, ctx, <<>>), compile(pat.v, <<>>, <<>>))
      [] pat.k = "fn" ->
           /\ fn # <<>> => fn[1] = pat.v
           /\ again # <<>> => again[1] = pat.v
           /\ ResolvedAs(pat.v, pat.v)
      [] OTHER ->
           /\ fn # <<>> => \A q \in ArgPoints :
                Apply(fn[1], q[1], Zero, q[2], Num(32)) = pat.v
           /\ again # <<>> => \A q \in ArgPoints :
                Apply(again[1], q[1], Zero, q[2], Num(32)) = pat.v
           /\ \A i \in 1..Len(calls) : calls[i].h = pat.v

\* C20 witness: the constant 0.5 resolved both ways and called at two
\* different times, once through each function.
C20_Witness ==
  /\ pat # <<>> /\ pat.k = "num" /\ pat.v = Rat(1, 2)
  /\ fn # <<>> /\ again # <<>>
  /\ Len(calls) = 2
  /\ calls[1].which = 1 /\ calls[2].which = 2
  /\ calls[1].t # calls[2].t
  /\ calls[1].h = Rat(1, 2) /\ calls[2].h = Rat(1, 2)

\* Value at the sample of operand p of a combinator: a primitive by its
\* definition, any other Pattern by the function compile() gives for it.
OperandValue(p) ==
  IF p.type \in {"flat", "map"} THEN LeafValue(p, out[1].t)
  ELSE Apply(compile(p, ctx, <<>>), Zero, Zero, out[1].t, Num(32))

\* The expected output of add, mul or inv at the sample.
CombinedValue ==
  CASE pat.type = "add" ->
         clamp01(Add(OperandValue(pat.args.a.v), OperandValue(pat.args.b.v)))
    [] pat.type = "mul" ->
         Mul(OperandValue(pat.args.a.v), OperandValue(pat.args.b.v))
    [] pat.type = "inv" -> Sub(One, OperandValue(pat.args.source.v))

\* A sample of a compiled add, mul or inv was taken.
CombineCase == out # <<>> /\ pat.type \in {"add", "mul", "inv"}

\* C21: for all operands and every sample, add(a, b) is clamp01(a + b) and
\* lies in [0, 1], mul(a, b) is a * b and inv(a) is 1 - a.
C21_Combinators ==
  CombineCase =>
    /\ out[1].h = CombinedValue
    /\ pat.type = "add" => Le(Zero, out[1].h) /\ Le(out[1].h, One)

\* C22: tween(from, to, duration, easeFn) is `to` for every t >= duration and
\* for every t when duration <= 0, whatever easeFn is, and
\* from + (to - from) * easeFn(clamp01(t / duration)) for every other t,
\* negative t included.
C22_Tween ==
  (out # <<>> /\ fn[1].op = "tween") =>
    IF Le(fn[1].duration, Zero) \/ Le(fn[1].duration, out[1].t)
      THEN out[1].h = fn[1].to
      ELSE out[1].h =
             Add(fn[1].from,
                 Mul(Sub(fn[1].to, fn[1].from),
                     ApplyEase(fn[1].eFn, clamp01(Div(out[1].t, fn[1].duration)))))

\* The sample was taken in the first playthrough of a compiled seq.
FirstPlaythrough ==
  /\ SeqCompiled
  /\ out # <<>>
  /\ Lt(out[1].t, node[1].duration)

\* The sample fell into pattern segment seg: the output is seg's function at
\* the time passed since seg's start.
AtLocalTime(seg) ==
  seg.type = "p" =>
    out[1].h = Apply(seg.fn, Zero, Zero, Sub(out[1].t, seg.s), Num(32))

\* A seq of primitives only.
LeafSeqCase ==
  pat.type = "seq" /\ \A i \in 1..Len(ItemsOf(pat)) : ItemsOf(pat)[i] \in Leaves

\* C23: a pattern segment [s, e) of a compiled seq samples its item at local
\* time t - s, wherever the segment lies: in a seq of primitives item i,
\* starting at s_i, gives its value at t - s_i (map((x, z, t) => t) gives
\* t - s_i), and a timed block starts from its own time 0 as well.
C23_LocalTime ==
  FirstPlaythrough =>
    /\ AtLocalTime(node[1].fn.segs[SegmentAt(node[1].fn.segs, out[1].t)])
    /\ LeafSeqCase =>
         \A i \in 1..Len(ItemsOf(pat)) :
           SampledInItem(ItemsOf(pat), i) =>
             out[1].h = LeafValue(ItemsOf(pat)[i],
                                  Sub(out[1].t, StartOfItem(ItemsOf(pat), i)))

\* C23 witness: seq(flat, map((x, z, t) => t)) sampled after the start of its
\* second item, which returns the time since that start.
C23_Witness ==
  /\ FirstPlaythrough
  /\ LeafSeqCase
  /\ Len(ItemsOf(pat)) = 2
  /\ ItemsOf(pat)[1].type = "flat"
  /\ ItemsOf(pat)[2] = map(0, UserFn("t"))
  /\ SampledInItem(ItemsOf(pat), 2)
  /\ Lt(Zero, out[1].h)
  /\ out[1].h = Sub(out[1].t, StartOfItem(ItemsOf(pat), 2))

UnaryKinds == {"slow", "fast", "rotate", "scale", "offset", "ease", "inv"}

BinaryKinds == {"blend", "add", "mul"}

\* Reference duration of a primitive, a sleep, a seq of primitives, or a
\* transform or combinator of these.
RECURSIVE RefDuration(_)
RefDuration(p) ==
  CASE p.type = "sleep" -> p.args.duration.v
    [] p.type = "seq" -> EndOfItem(ItemsOf(p), Len(ItemsOf(p)))
    [] p.type = "slow" -> Mul(RefDuration(p.args.source.v), p.args.factor.v)
    [] p.type = "fast" -> Div(RefDuration(p.args.source.v), p.args.factor.v)
    [] p.type \in {"rotate", "scale", "offset", "ease", "inv"} ->
         RefDuration(p.args.source.v)
    [] p.type \in BinaryKinds ->
         MathMax(RefDuration(p.args.a.v), RefDuration(p.args.b.v))
    [] OTHER -> spcOf

\* The i-th pattern segment of segs.
NthPatternSegment(segs, i) ==
  segs[CHOOSE k \in SegsOfType(segs, "p") :
         Cardinality({j \in SegsOfType(segs, "p") : j <= k}) = i]

\* A seq whose last item is a transform or a combinator was compiled.
WrapperItemCase ==
  /\ SeqCompiled
  /\ ItemsOf(pat)[Len(ItemsOf(pat))].type \in UnaryKinds \cup BinaryKinds

\* C24: slow multiplies and fast divides the source's duration by the
\* factor, rotate, scale, offset, ease and inv keep it, blend, add and mul
\* have the longer of their operands' durations; as a seq item each of them
\* gets a pattern segment of exactly that length.
C24_Durations ==
  /\ (node # <<>> /\ pat.type \in UnaryKinds \cup BinaryKinds) =>
       node[1].duration = RefDuration(pat)
  /\ WrapperItemCase =>
       /\ Cardinality(SegsOfType(node[1].fn.segs, "p")) = Len(ItemsOf(pat))
       /\ \A i \in 1..Len(ItemsOf(pat)) :
            SegLen(NthPatternSegment(node[1].fn.segs, i)) = RefDuration(ItemsOf(pat)[i])

\* C24 witness: seq(flat, add(slow(seq(flat, flat), 2), sleep(0.5))) compiled
\* at one second per cycle: the second segment lasts max(2.4 * 2, 0.5) = 4.8 s.
C24_Witness ==
  /\ WrapperItemCase
  /\ ctx = <<>>
  /\ Len(ItemsOf(pat)) = 2
  /\ ItemsOf(pat)[2] = add(0, slow(0, seq(0, <<flat(0, Zero), flat(0, One)>>), Num(2)),
                           sleep(0, Rat(1, 2)))
  /\ SegLen(NthPatternSegment(node[1].fn.segs, 2)) = Rat(48, 10)

\* The items of the seq that are not sleeps.
NonSleeps(items) == {i \in 1..Len(items) : items[i].type # "sleep"}

\* A seq with exactly one item that is not a sleep was compiled.
OneItemCase == SeqCompiled /\ Cardinality(NonSleeps(ItemsOf(pat))) = 1

\* The index of that item.
TheItem == CHOOSE i \in NonSleeps(ItemsOf(pat)) : TRUE

\* A seq without items, or with finite sleeps only, was compiled.
NoItemCase ==
  /\ SeqCompiled
  /\ NonSleeps(ItemsOf(pat)) = {}
  /\ InfiniteSleeps(ItemsOf(pat)) = {}

\* Reference output at sequence time lt of a seq whose only pattern item is
\* items[k]: the item, and each hold after it, plays the item from the
\* start of its own interval.
ItemOrHoldValue(items, k, lt) ==
  LET j == CHOOSE j \in k..Len(items) :
             /\ Le(EndOfItem(items, j - 1), lt)
             /\ Lt(lt, EndOfItem(items, j))
  IN  ItemValue(items[k], Sub(lt, EndOfItem(items, j - 1)))

\* C25 as stated: a seq with exactly one non-sleep item has no crossfade
\* segment and at top level loops by plain modulo over that item's
\* duration; a seq with no non-sleep item and no infinite sleep has
\* duration 0, is not looped and is 0 everywhere.
C25_ModuloOverItem ==
  /\ OneItemCase =>
       /\ SegsOfType(node[1].fn.segs, "x") = {}
       /\ fn[1].op = "loopMod"
       /\ fn[1].duration = ItemDuration(ItemsOf(pat)[TheItem])
  /\ NoItemCase =>
       /\ node[1].duration = Zero
       /\ fn[1] = node[1].fn
       /\ out # <<>> => out[1].h = Zero

\* C25, amended: a seq with exactly one non-sleep item has no crossfade
\* segment and never blends; when no sleep(Infinity) is among its items it
\* loops at top level by plain modulo over the whole sequence, the item's
\* duration plus the finite sleeps after it; when a sleep(Infinity) follows
\* the item it is not looped and holds the item; when a sleep(Infinity)
\* precedes the item it is not looped and is 0 everywhere.  A seq with no
\* non-sleep item and no infinite sleep has duration 0, is not looped and is
\* 0 everywhere.
C25_Degenerate ==
  /\ OneItemCase =>
       /\ SegsOfType(node[1].fn.segs, "x") = {}
       /\ fn[1].op # "loopWrap"
       /\ IF InfiniteSleeps(ItemsOf(pat)) = {}
            THEN /\ fn[1].op = "loopMod"
                 /\ fn[1].duration = EndOfItem(ItemsOf(pat), Len(ItemsOf(pat)))
                 /\ out # <<>> =>
                      out[1].h = ItemOrHoldValue(ItemsOf(pat), TheItem,
                                                 Mod(out[1].t, fn[1].duration))
            ELSE /\ fn[1] = node[1].fn
                 /\ node[1].duration = Infinity
                 /\ out # <<>> =>
                      out[1].h = IF FirstInfiniteSleep(ItemsOf(pat)) < TheItem
                                   THEN Zero
                                   ELSE ItemOrHoldValue(ItemsOf(pat), TheItem, out[1].t)
  /\ NoItemCase =>
       /\ node[1].duration = Zero
       /\ fn[1] = node[1].fn
       /\ out # <<>> => out[1].h = Zero

\* C25 witness: seq(map((x, z, t) => t), sleep(0.5)) at one second per cycle,
\* sampled at t = 1.5, the end of its loop of 1.5 s, where it is 0 again.
C25_Witness ==
  /\ OneItemCase
  /\ ctx = <<>>
  /\ Len(ItemsOf(pat)) = 2
  /\ ItemsOf(pat)[1] = map(0, UserFn("t"))
  /\ ItemsOf(pat)[2] = sleep(0, Rat(1, 2))
  /\ out # <<>>
  /\ out[1].t = Rat(3, 2)
  /\ out[1].h = Zero

\* ------------------------------------------------------------------------
\* The left panel's resize state
\* ------------------------------------------------------------------------

MIN_WIDTH == Num(280)

MAX_WIDTH_RATIO == Rat(8, 10)

createResizeState(initialWidth) ==
  [width |-> initialWidth, dragging |-> FALSE, startX |-> Zero,
   startWidth |-> initialWidth]

clampWidthNoMinimum(width, viewportWidth) ==
  MathMin(Num(MathFloor(Mul(viewportWidth, MAX_WIDTH_RATIO))), width)

clampWidth(width, viewportWidth) ==
  LET maxW == Num(MathFloor(Mul(viewportWidth, MAX_WIDTH_RATIO)))
  IN  MathMax(MIN_WIDTH, MathMin(maxW, width))

\* The pointer positions and viewport widths of the calls, in pixels: a
\* viewport of 300 has floor(0.8 * 300) = 240 below the minimum width, and
\* 0.8 * 1001 = 800.8 is not whole.
ClientXs == {Num(100), Num(350), Num(420), Num(500), Num(1200)}

ViewportWidths == {Num(300), Num(1001), Num(1200)}

\* panel.offsetWidth when the state is created: createResizeState does not
\* clamp it.
InitialWidths == {Num(200), Num(420)}

PanelCall(op, clientX, viewportWidth, ret) ==
  [op |-> op, clientX |-> clientX, viewportWidth |-> viewportWidth, ret |-> ret]

ResizeInit ==
  /\ \E w \in InitialWidths : resize = <<createResizeState(w)>>
  /\ called = <<>>
  /\ registry = <<>>
  /\ created = <<>>
  /\ nextId = 1
  /\ pc = "idle"
  /\ runs = 0
  /\ config = createPendingConfig
  /\ result = <<>>
  /\ compiledRoot = <<>>
  /\ schedulerState = createSchedulerState
  /\ frames = 0
  /\ frame = <<>>
  /\ display = createDisplay
  /\ HarnessIdle

StartDrag ==
  /\ resize # <<>>
  /\ \E clientX \in ClientXs :
       /\ resize' = <<[resize[1] EXCEPT !.dragging = TRUE,
                                        !.startX = clientX,
                                        !.startWidth = resize[1].width]>>
       /\ called' = <<PanelCall("startDrag", <<clientX>>, <<>>, <<>>)>>
  /\ UNCHANGED <<runtimeVars, harnessVars, display>>

UpdateDrag ==
  /\ resize # <<>>
  /\ \E clientX \in ClientXs, viewportWidth \in ViewportWidths :
       IF ~resize[1].dragging
         THEN /\ resize' = resize
              /\ called' = <<PanelCall("updateDrag", <<clientX>>, <<viewportWidth>>,
                                       <<resize[1].width>>)>>
         ELSE LET delta == Sub(clientX, resize[1].startX)
                  newWidth == clampWidth(Add(resize[1].startWidth, delta),
                                         viewportWidth)
              IN  /\ resize' = <<[resize[1] EXCEPT !.width = newWidth]>>
                  /\ called' = <<PanelCall("updateDrag", <<clientX>>,
                                           <<viewportWidth>>, <<newWidth>>)>>
  /\ UNCHANGED <<runtimeVars, harnessVars, display>>

EndDrag ==
  /\ resize # <<>>
  /\ resize' = <<[resize[1] EXCEPT !.dragging = FALSE]>>
  /\ called' = <<PanelCall("endDrag", <<>>, <<>>, <<>>)>>
  /\ UNCHANGED <<runtimeVars, harnessVars, display>>

ResizeNext == StartDrag \/ UpdateDrag \/ EndDrag

ResizeSpec == ResizeInit /\ [][ResizeNext]_vars

\* The widest the panel may be in a viewport: max(280, floor(0.8 * viewport))
WidestAllowed(viewportWidth) ==
  MathMax(Num(280), Num(MathFloor(Mul(Rat(4, 5), viewportWidth))))

\* C26: over any sequence of startDrag, updateDrag and endDrag calls the
\* width changes only in an updateDrag made while dragging is true, the
\* changed width lies in [280, max(280, floor(0.8 * viewportWidth))], and an
\* updateDrag made while not dragging returns the current width and leaves
\* the state as it was.
C26_WidthOnlyWhileDragging ==
  [][/\ resize'[1].width # resize[1].width =>
          /\ called'[1].op = "updateDrag"
          /\ resize[1].dragging
          /\ Le(Num(280), resize'[1].width)
          /\ Le(resize'[1].width, WidestAllowed(called'[1].viewportWidth[1]))
          /\ called'[1].ret = <<resize'[1].width>>
     /\ (called' # called /\ called'[1].op = "updateDrag" /\ ~resize[1].dragging) =>
          /\ called'[1].ret = <<resize[1].width>>
          /\ resize' = resize]_vars

\* C26 witness: a drag from 420 px that the pointer carries to x = 1200 in a
\* viewport of 1200 px, which stops at floor(0.8 * 1200) = 960.
C26_Witness ==
  /\ resize # <<>>
  /\ resize[1].dragging
  /\ resize[1].startWidth = Num(420)
  /\ resize[1].width = Num(960)
  /\ called = <<PanelCall("updateDrag", <<Num(1200)>>, <<Num(1200)>>, <<Num(960)>>)>>

\* ------------------------------------------------------------------------
\* Seqs of patterns and sleeps of every sign
\* ------------------------------------------------------------------------

SegmentItems ==
  {flat(0, One), map(0, UserFn("t")), sleep(0, Rat(1, 2)), sleep(0, Zero),
   sleep(0, Rat(-1, 2)), sleep(0, Infinity)}

SegmentPrograms == {seq(0, ps) : ps \in UNION {[1..n -> SegmentItems] : n \in 0..MaxItems}}

SegmentInit ==
  /\ RuntimeInit
  /\ pat \in SegmentPrograms
  /\ ctx \in Contexts
  /\ node = <<>>
  /\ fn = <<>>
  /\ out = <<>>
  /\ again = <<>>
  /\ calls = <<>>

SegmentSpec == SegmentInit /\ [][CompileNext]_vars

\* The segment list of the compiled seq
Segs == node[1].fn.segs

\* No sleep of the seq has a negative duration (its patterns last spc > 0).
NonNegativeDurations ==
  \A i \in 1..Len(ItemsOf(pat)) :
    ItemsOf(pat)[i].type = "sleep" => Le(Zero, ItemsOf(pat)[i].args.duration.v)

\* The segments [s, e) that hold t
SegmentsHolding(t) == {i \in 1..Len(Segs) : Le(Segs[i].s, t) /\ Lt(t, Segs[i].e)}

\* C27: the segment list of a seq is contiguous: a non-empty list starts at
\* 0 with a pattern segment or an infinite hold, every later segment starts
\* where the one before it ends, and the duration of the node is the end of
\* the last segment; with no negative duration every t in [0, duration) is
\* in exactly one segment, the one the sampling loop selects.
C27_Contiguous ==
  SeqCompiled =>
    /\ Segs # <<>> =>
         /\ Segs[1].s = Zero
         /\ \/ Segs[1].type = "p"
            \/ Segs[1].type = "h" /\ Segs[1].e = Infinity
         /\ \A i \in 2..Len(Segs) : Segs[i].s = Segs[i - 1].e
         /\ node[1].duration = Segs[Len(Segs)].e
    /\ NonNegativeDurations =>
         \A t \in Times :
           Lt(t, node[1].duration) =>
             /\ Cardinality(SegmentsHolding(t)) = 1
             /\ SegmentAt(Segs, t) \in SegmentsHolding(t)

\* C27 witness: seq(flat(1), sleep(0), map((x, z, t) => t)) at one second per
\* cycle has the segments p [0, 1), h [1, 1), x [1, 1.4), p [1.4, 2.4);
\* sampled at t = 1, the empty hold is passed over and the crossfade selected.
C27_Witness ==
  /\ SeqCompiled
  /\ ctx = <<>>
  /\ ItemsOf(pat) = <<flat(0, One), sleep(0, Zero), map(0, UserFn("t"))>>
  /\ Len(Segs) = 4
  /\ Segs[2].s = Segs[2].e
  /\ node[1].duration = Rat(12, 5)
  /\ out # <<>>
  /\ out[1].t = One
  /\ SegmentAt(Segs, out[1].t) = 3

\* ------------------------------------------------------------------------
\* Seqs of constant patterns and sleeps
\* ------------------------------------------------------------------------

RangeItems ==
  {flat(0, Rat(1, 5)), flat(0, Rat(4, 5)), time(0, flat(0, Rat(1, 2)), Zero),
   sleep(0, Rat(1, 2)), sleep(0, Zero), sleep(0, Infinity)}

RangePrograms == {seq(0, ps) : ps \in SeqOf(RangeItems, MaxItems)}

RangeInit ==
  /\ RuntimeInit
  /\ pat \in RangePrograms
  /\ ctx \in Contexts
  /\ node = <<>>
  /\ fn = <<>>
  /\ out = <<>>
  /\ again = <<>>
  /\ calls = <<>>

RangeSpec == RangeInit /\ [][CompileNext]_vars

\* The pattern items of a seq of constants and sleeps, and their heights.
PatternItems(items) == {i \in 1..Len(items) : unwrapTime(items[i]).inner.type # "sleep"}

HeightOf(p) == unwrapTime(p).inner.args.h.v

\* A sample of a compiled seq that has at least one pattern item.
RangeCase ==
  /\ out # <<>>
  /\ pat.type = "seq"
  /\ PatternItems(ItemsOf(pat)) # {}

\* The output is within the range of the pattern items' values.
InItemRange ==
  /\ \E i \in PatternItems(ItemsOf(pat)) : Le(HeightOf(ItemsOf(pat)[i]), out[1].h)
  /\ \E i \in PatternItems(ItemsOf(pat)) : Le(out[1].h, HeightOf(ItemsOf(pat)[i]))

\* No pattern item comes before the first infinite sleep.
LeadingInfiniteSleep ==
  /\ InfiniteSleeps(ItemsOf(pat)) # {}
  /\ \A i \in PatternItems(ItemsOf(pat)) : FirstInfiniteSleep(ItemsOf(pat)) < i

\* C28 as stated: the top-level function of a seq with a pattern item and no
\* negative duration returns, at every t >= 0, a value within the range of
\* its pattern items' values.
C28_WithinItemRange == RangeCase => InItemRange

\* C28, amended: the output is within the range of the pattern items' values
\* unless an infinite sleep comes before every pattern item, in which case
\* the output is 0 whatever the items' values.
C28_WithinRangeOncePlayed ==
  RangeCase => IF LeadingInfiniteSleep THEN out[1].h = Zero ELSE InItemRange

\* C28 witness: seq(flat(0.2), flat(0.8)) at one second per cycle, sampled in
\* the middle of its wrap crossfade (t = 2.6 of a loop of 2.8 s), returns 0.5.
C28_Witness ==
  /\ RangeCase
  /\ ctx = <<>>
  /\ ItemsOf(pat) = <<flat(0, Rat(1, 5)), flat(0, Rat(4, 5))>>
  /\ out[1].t = Rat(13, 5)
  /\ out[1].h = Rat(1, 2)

\* ------------------------------------------------------------------------
\* Runs whose scripts call the config setters before they throw or return
\* ------------------------------------------------------------------------

\* The script calls setdim(16), setbackground("#ff0000") or setrotate("off").
ScriptSets ==
  /\ pc = "script"
  /\ \/ config' = setdim(config, Num(16))
     \/ config' = setbackground(config, "#ff0000")
     \/ config' = setrotate(config, <<"o", "f", "f">>)
  /\ UNCHANGED <<registry, created, nextId, pc, runs, result, compiledRoot,
                 schedulerState, frames, frame, harnessVars, uiVars>>

RerunNext ==
  \/ RunBegin(FALSE)
  \/ RunBegin(TRUE)
  \/ NewFlat
  \/ ScriptSets
  \/ ScriptThrows("boom")
  \/ ScriptThrows("")
  \/ ScriptReturns
  \/ Frame

RerunSpec == Init /\ [][RerunNext]_vars

\* A step that ends a run whose runCode returned an error
FailedRun == pc = "script" /\ pc' = "idle" /\ result'[1].error # <<>>

\* C29: a run that ends with an error leaves activePattern, programStartTime,
\* the grid size, the background and the rotate mode as they were, whatever
\* setters the script called before it threw.
C29_FailedRunChangesNothing ==
  [][FailedRun =>
       /\ schedulerState'.activePattern = schedulerState.activePattern
       /\ schedulerState'.programStartTime = schedulerState.programStartTime
       /\ display' = display]_vars

\* ------------------------------------------------------------------------
\* One transform, time() or combinator over a seq: compile, then one call
\* ------------------------------------------------------------------------

LoopSources ==
  Inners \cup {seq(0, <<flat(0, Rat(1, 5))>>), flat(0, Rat(1, 5)),
               seq(0, <<flat(0, Rat(1, 5)), sleep(0, Infinity)>>)}

LoopPrograms ==
  UNION {{slow(0, p, Num(2)), fast(0, p, Num(2)), rotate(0, p, Zero),
          scale(0, p, One), offset(0, p), ease(0, p), inv(0, p),
          time(0, p, Rat(7, 5)),
          blend(0, p, flat(0, Rat(1, 5)), Rat(1, 2)), add(0, p, flat(0, Rat(1, 5))),
          mul(0, p, flat(0, Rat(1, 5))), add(0, flat(0, Rat(1, 5)), p)} :
         p \in LoopSources}

LoopInit ==
  /\ RuntimeInit
  /\ pat \in LoopPrograms
  /\ ctx \in Contexts
  /\ node = <<>>
  /\ fn = <<>>
  /\ out = <<>>
  /\ again = <<>>
  /\ calls = <<>>

LoopSpec == LoopInit /\ [][CompileNext]_vars

\* The CompiledNode of the source of the transform or time() pat
SourceNode == compileNode(pat.args.source.v, FullCtx(ctx), <<1>>)

\* pat is a transform of a finite seq whose first and last item differ.
TransformedSeqCase ==
  /\ node # <<>>
  /\ pat.type \in UnaryKinds
  /\ pat.args.source.v.type = "seq"
  /\ Len(ItemsOf(pat.args.source.v)) > 1
  /\ InfiniteSleeps(ItemsOf(pat.args.source.v)) = {}

====
